---- MODULE Spec2Model ----
(***************************************************************************)
(* State/derivation engine of the freelancer time tracker                  *)
(* (src/src/app/page.tsx): the reducer over AppState, the handlers of the  *)
(* Home component that dispatch to it, the persistence effect, the tick    *)
(* effect of the timer display, and the memoised invoice derivation.       *)
(*                                                                         *)
(* Encodings.                                                              *)
(*  - state.runningTimer (a record, null or undefined in the source) is a  *)
(*    sequence holding the timer records of the store: <<>> is null.       *)
(*  - An optional identifier (ID | undefined) is a string; Undefined is    *)
(*    the value of an unset one.                                           *)
(*  - Instants are epoch milliseconds.  Hours are kept in hundredths and   *)
(*    money in cents, so toFixed(2) is rounding to an integer, halves      *)
(*    upwards; the rates, tax rates and durations of the model keep every  *)
(*    rounded quantity away from a half, where the binary representation   *)
(*    of a number would decide.                                            *)
(*  - A text that is exported is the sequence of its pieces: delimiters    *)
(*    (comma, double quote, newline) and runs of other characters.         *)
(*  - A date input ("YYYY-MM-DD") is the number of its day since           *)
(*    1970-01-01, and new Date(...) of it is midnight UTC of that day.     *)
(*  - The window's intervals are the set of their handles; a handle is a   *)
(*    positive number, and 0 stands for tickRef.current = null.            *)
(*  - Fields the engine never reads (email, color, tags, dates of an       *)
(*    invoice) are left out of the records.                                *)
(***************************************************************************)
EXTENDS Integers, Sequences, FiniteSets, TLC

(* Bounds of the model: how many identifiers of each kind uid() hands out, *)
(* and how many clock steps the instants span.                             *)
MaxClients == 2
MaxProjects == 2
MaxEntries == 2
MaxInvoices == 3
MaxTick == 1
(* Clients and projects in the stored snapshot of the cascade scenario.    *)
MaxStored == 3
(* The last day, counted from 1970-01-01, a date input is set to.          *)
MaxDay == 1
(* How often the tick callback runs between two loads of the page.         *)
MaxForceTick == 2

Undefined == "undefined"
NoTimer == << >>
NoRate == -1
NoInput == -1
NoStorage == [absent |-> TRUE]
(* tickRef.current = null; the handles window.setInterval returns are      *)
(* positive, and the cleanup tests the handle for truthiness.              *)
NoInterval == 0

(* Values of Date.now() and of stored instants: whole minutes.  Date.now() *)
(* is the wall clock, which may be set back between two readings, so each  *)
(* reading is any instant.                                                  *)
Instants == { i * 60000 : i \in 0..MaxTick }
(* A datetime-local input has minute resolution and also takes dates       *)
(* before 1970, whose getTime() is negative; "" is NoInput.                *)
DateTimeInputs == Instants \cup { 0 - t : t \in Instants } \cup {NoInput}

(* A date input holds a calendar day, here its number of days since      *)
(* 1970-01-01; "" is NoDate.                                               *)
NoDate == -1
DateInputs == 0..MaxDay \cup {NoDate}
DayMs == 24 * 3600 * 1000

NameInputs == {"", " ", "Acme"}
NotesInputs == {"", "n"}
ClientRateInputs == {0, 5000}
ProjectRateInputs == {0, 7500}
TaxRateInputs == {0, 8, 10}
ActiveInputs == BOOLEAN
ArchivedInputs == BOOLEAN
BillableInputs == BOOLEAN

VARIABLES
    state,          \* AppState held by useReducer
    storage,        \* localStorage[STORAGE_KEY], as parsed JSON, or NoStorage
    uidCount,       \* identifiers handed out so far, per prefix
    selClient,      \* dashboard form
    selProject,
    notes,
    billable,
    invoiceClient,  \* invoice form
    taxRate,
    invoiceLines,   \* the value memoised by useMemo(..., [invoiceEntries, projectMap])
    fromDate,       \* reports tab: date inputs of the range
    toDate,
    invoiceFrom,    \* invoice form: date inputs of the range
    invoiceTo,
    tickRef,        \* tickRef.current: the handle of the tick interval, or NoInterval
    intervals,      \* the handles of the intervals the window holds
    tick            \* the counter forceTick advances

vars == << state, storage, uidCount, selClient, selProject, notes, billable,
           invoiceClient, taxRate, invoiceLines, fromDate, toDate, invoiceFrom, invoiceTo,
           tickRef, intervals, tick >>

----------------------------------------------------------------------------
(* Sequence helpers: Array.prototype.filter / map / some.                   *)

Filter(seq, Test(_)) == SelectSeq(seq, Test)

Map(seq, F(_)) == [ i \in DOMAIN seq |-> F(seq[i]) ]

Range(seq) == { seq[i] : i \in DOMAIN seq }

Ids(seq) == { seq[i].id : i \in DOMAIN seq }

Truthy(n) == n # NoRate /\ n # 0

IsSet(id) == id # Undefined /\ id # ""

----------------------------------------------------------------------------
(* uid(prefix): a fresh identifier; the n-th of a prefix is "<prefix>_n".   *)

(* The random part and the clock are what make two identifiers differ; the *)
(* model takes them to differ for every two calls.                         *)

(* An identifier that is the same for every call.                          *)
uidRepeated(prefix, n) == prefix \o "_" \o ToString(1)

uid(prefix, n) == prefix \o "_" \o ToString(n)

ClientIds == { uid("client", n) : n \in 1..MaxClients }
ProjectIds == { uid("project", n) : n \in 1..MaxProjects }
EntryIds == { uid("entry", n) : n \in 1..MaxEntries }
InvoiceIds == { uid("inv", n) : n \in 1..MaxInvoices }

EmptyState == [ clients |-> << >>, projects |-> << >>, entries |-> << >>,
                invoices |-> << >>, runningTimer |-> NoTimer ]

----------------------------------------------------------------------------
(* reducer(state, action)                                                   *)

(* { ...a, ...b }: the fields of b over those of a.                         *)
Spread(a, b) ==
    [ f \in (DOMAIN a) \cup (DOMAIN b) |-> IF f \in DOMAIN b THEN b[f] ELSE a[f] ]

(* A subtraction left unclamped.                                           *)
Max0Unclamped(n) == n

(* Math.max(0, n)                                                          *)
Max0(n) == IF n > 0 THEN n ELSE 0

(* An entry that takes the client and the project of the timer as they    *)
(* are, selected or not.                                                   *)
StopTimerEntryWithoutSentinels(timer, end, id) ==
    [ id |-> id,
      clientId |-> timer.clientId,
      projectId |-> timer.projectId,
      start |-> timer.start,
      end |-> end,
      durationMs |-> Max0(end - timer.start),
      notes |-> timer.notes,
      billable |-> timer.billable ]

StopTimerEntry(timer, end, id) ==
    [ id |-> id,
      clientId |-> IF IsSet(timer.clientId) THEN timer.clientId ELSE "unassigned_client",
      projectId |-> IF IsSet(timer.projectId) THEN timer.projectId ELSE "unassigned_project",
      start |-> timer.start,
      end |-> end,
      durationMs |-> Max0(end - timer.start),
      notes |-> timer.notes,
      billable |-> timer.billable ]

(* An update that moves the element it replaces to the head.               *)
ReplaceByIdToHead(seq, payload) ==
    IF \E i \in DOMAIN seq : seq[i].id = payload.id
    THEN << payload >> \o Filter(seq, LAMBDA x : x.id # payload.id)
    ELSE seq

ReplaceById(seq, payload) ==
    [ i \in DOMAIN seq |-> IF seq[i].id = payload.id THEN payload ELSE seq[i] ]

(* A start that keeps the timer it finds beside the new one.               *)
StartTimerCaseStacking(s, payload) == [ s EXCEPT !.runningTimer = Append(@, payload) ]

StartTimerCase(s, payload) == [ s EXCEPT !.runningTimer = << payload >> ]

(* A stop that puts the entry at the end of the entries.                   *)
StopTimerCaseAppends(s, payload) ==
    IF s.runningTimer = NoTimer THEN s
    ELSE [ s EXCEPT !.runningTimer = NoTimer,
                    !.entries = Append(s.entries,
                                       StopTimerEntry(s.runningTimer[1], payload.end, payload.id)) ]

(* A stop that records the entry and leaves the timer running.             *)
StopTimerCaseKeepsTimer(s, payload) ==
    IF s.runningTimer = NoTimer THEN s
    ELSE [ s EXCEPT !.entries = << StopTimerEntry(s.runningTimer[1], payload.end, payload.id) >>
                                \o s.entries ]

StopTimerCase(s, payload) ==
    IF s.runningTimer = NoTimer THEN s
    ELSE [ s EXCEPT !.runningTimer = NoTimer,
                    !.entries = << StopTimerEntry(s.runningTimer[1], payload.end, payload.id) >>
                                \o s.entries ]

(* A reset that does nothing.                                              *)
ResetTimerCaseIgnored(s) == s

ResetTimerCase(s) == [ s EXCEPT !.runningTimer = NoTimer ]

(* A client delete that takes the newest client when none has the         *)
(* identifier.                                                             *)
DeleteClientCaseOrNewest(s, payload) ==
    IF (\E i \in DOMAIN s.clients : s.clients[i].id = payload.id) \/ s.clients = << >>
    THEN [ s EXCEPT !.projects = Filter(s.projects, LAMBDA p : p.clientId # payload.id),
                    !.entries = Filter(s.entries, LAMBDA e : e.clientId # payload.id),
                    !.clients = Filter(s.clients, LAMBDA c : c.id # payload.id) ]
    ELSE [ s EXCEPT !.clients = Tail(s.clients) ]

(* A client delete that also drops the invoices of the client.             *)
DeleteClientCaseWithInvoices(s, payload) ==
    [ s EXCEPT !.projects = Filter(s.projects, LAMBDA p : p.clientId # payload.id),
               !.entries = Filter(s.entries, LAMBDA e : e.clientId # payload.id),
               !.clients = Filter(s.clients, LAMBDA c : c.id # payload.id),
               !.invoices = Filter(s.invoices, LAMBDA i : i.clientId # payload.id) ]

(* A client delete that also drops the entries of the client's projects.   *)
DeleteClientCaseByProject(s, payload) ==
    LET gone == { p.id : p \in { q \in Range(s.projects) : q.clientId = payload.id } }
    IN [ s EXCEPT !.projects = Filter(s.projects, LAMBDA p : p.clientId # payload.id),
                  !.entries = Filter(s.entries, LAMBDA e : e.clientId # payload.id
                                                          /\ e.projectId \notin gone),
                  !.clients = Filter(s.clients, LAMBDA c : c.id # payload.id) ]

DeleteClientCase(s, payload) ==
    [ s EXCEPT !.projects = Filter(s.projects, LAMBDA p : p.clientId # payload.id),
               !.entries = Filter(s.entries, LAMBDA e : e.clientId # payload.id),
               !.clients = Filter(s.clients, LAMBDA c : c.id # payload.id) ]

(* A project delete that also stops a timer running on the project.        *)
DeleteProjectCaseStopsTimer(s, payload) ==
    [ s EXCEPT !.entries = Filter(s.entries, LAMBDA e : e.projectId # payload.id),
               !.projects = Filter(s.projects, LAMBDA p : p.id # payload.id),
               !.runningTimer = IF @ # NoTimer /\ @[1].projectId = payload.id
                                THEN NoTimer ELSE @ ]

DeleteProjectCase(s, payload) ==
    [ s EXCEPT !.entries = Filter(s.entries, LAMBDA e : e.projectId # payload.id),
               !.projects = Filter(s.projects, LAMBDA p : p.id # payload.id) ]

reducer(s, action) ==
    CASE action.type = "INIT" -> Spread(s, action.payload)
      [] action.type = "ADD_CLIENT" ->
            [ s EXCEPT !.clients = << action.payload >> \o s.clients ]
      [] action.type = "UPDATE_CLIENT" ->
            [ s EXCEPT !.clients = ReplaceById(s.clients, action.payload) ]
      [] action.type = "DELETE_CLIENT" -> DeleteClientCase(s, action.payload)
      [] action.type = "ADD_PROJECT" ->
            [ s EXCEPT !.projects = << action.payload >> \o s.projects ]
      [] action.type = "UPDATE_PROJECT" ->
            [ s EXCEPT !.projects = ReplaceById(s.projects, action.payload) ]
      [] action.type = "DELETE_PROJECT" -> DeleteProjectCase(s, action.payload)
      [] action.type = "ADD_ENTRY" ->
            [ s EXCEPT !.entries = << action.payload >> \o s.entries ]
      [] action.type = "UPDATE_ENTRY" ->
            [ s EXCEPT !.entries = ReplaceById(s.entries, action.payload) ]
      [] action.type = "DELETE_ENTRY" ->
            [ s EXCEPT !.entries = Filter(s.entries, LAMBDA e : e.id # action.payload.id) ]
      [] action.type = "START_TIMER" -> StartTimerCase(s, action.payload)
      [] action.type = "STOP_TIMER" -> StopTimerCase(s, action.payload)
      [] action.type = "RESET_TIMER" -> ResetTimerCase(s)
      [] action.type = "ADD_INVOICE" ->
            [ s EXCEPT !.invoices = << action.payload >> \o s.invoices ]
      [] action.type = "UPDATE_INVOICE" ->
            [ s EXCEPT !.invoices = ReplaceById(s.invoices, action.payload) ]
      [] action.type = "DELETE_INVOICE" ->
            [ s EXCEPT !.invoices = Filter(s.invoices, LAMBDA i : i.id # action.payload.id) ]
      [] OTHER -> s

(* The fields of the state a reducer case assigns a new array to: what the  *)
(* dependency lists of useMemo compare by reference.                        *)
Assigned(s, action) ==
    CASE action.type \in {"ADD_CLIENT", "UPDATE_CLIENT"} -> {"clients"}
      [] action.type = "DELETE_CLIENT" -> {"clients", "projects", "entries"}
      [] action.type \in {"ADD_PROJECT", "UPDATE_PROJECT"} -> {"projects"}
      [] action.type = "DELETE_PROJECT" -> {"projects", "entries"}
      [] action.type \in {"ADD_ENTRY", "UPDATE_ENTRY", "DELETE_ENTRY"} -> {"entries"}
      [] action.type = "START_TIMER" -> {"runningTimer"}
      [] action.type = "STOP_TIMER" ->
            IF s.runningTimer = NoTimer THEN {} ELSE {"entries", "runningTimer"}
      [] action.type = "RESET_TIMER" -> {"runningTimer"}
      [] action.type \in {"ADD_INVOICE", "UPDATE_INVOICE", "DELETE_INVOICE"} -> {"invoices"}
      [] action.type = "INIT" -> DOMAIN action.payload
      [] OTHER -> {}

----------------------------------------------------------------------------
(* loadState / persistState                                                 *)

Malformed == [unparseable |-> TRUE]

loadState(raw) ==
    IF raw = NoStorage \/ raw = Malformed
    THEN EmptyState
    ELSE Spread([ runningTimer |-> NoTimer ], raw)

(* The four collections of AppState.  The render of Home reads each of     *)
(* them (state.clients.map, state.projects.map, state.entries.slice,       *)
(* state.invoices.length), so it throws on a state without one, and the    *)
(* effects of that render do not run.                                      *)
Collections == { "clients", "projects", "entries", "invoices" }

Renders(s) == Collections \subseteq DOMAIN s

(* A snapshot stored without the running timer.                            *)
persistStateWithoutTimer(s) ==
    [ clients |-> s.clients, projects |-> s.projects, entries |-> s.entries,
      invoices |-> s.invoices, runningTimer |-> NoTimer ]

(* JSON.stringify({ ...rest, runningTimer }): the five fields of the state. *)
persistState(s) ==
    [ clients |-> s.clients, projects |-> s.projects, entries |-> s.entries,
      invoices |-> s.invoices, runningTimer |-> s.runningTimer ]

----------------------------------------------------------------------------
(* Derivations: clientMap / projectMap, rateFor, hoursFromMs, the invoice.  *)

(* new Map(arr.map(x => [x.id, x])): a later element with the same id wins. *)
MapHas(seq, id) == \E i \in DOMAIN seq : seq[i].id = id

MapGet(seq, id) ==
    seq[CHOOSE i \in DOMAIN seq :
            seq[i].id = id /\ \A j \in DOMAIN seq : seq[j].id = id => j <= i]

(* A resolver that prefers the client's default rate.                      *)
rateForClientFirst(s, projectId, clientId) ==
    IF IsSet(clientId) /\ MapHas(s.clients, clientId)
       /\ Truthy(MapGet(s.clients, clientId).rate)
    THEN MapGet(s.clients, clientId).rate
    ELSE IF IsSet(projectId) /\ MapHas(s.projects, projectId)
            /\ Truthy(MapGet(s.projects, projectId).rate)
         THEN MapGet(s.projects, projectId).rate
         ELSE 0

rateFor(s, projectId, clientId) ==
    IF IsSet(projectId) /\ MapHas(s.projects, projectId)
       /\ Truthy(MapGet(s.projects, projectId).rate)
    THEN MapGet(s.projects, projectId).rate
    ELSE IF IsSet(clientId) /\ MapHas(s.clients, clientId)
            /\ Truthy(MapGet(s.clients, clientId).rate)
         THEN MapGet(s.clients, clientId).rate
         ELSE 0

(* "INV-<year>-" followed by the sequence, padStart(4, "0").                *)
PadStart4(str) ==
    CASE Len(str) = 1 -> "000" \o str
      [] Len(str) = 2 -> "00" \o str
      [] Len(str) = 3 -> "0" \o str
      [] OTHER -> str

(* toFixed(2) of a non-negative quotient num / den, in hundredths.          *)
Round2(num, den) == (2 * num + den) \div (2 * den)

(* +(ms / 1000 / 3600).toFixed(2), in hundredths of an hour: ms / 36000,   *)
(* rounded.                                                                 *)
hoursFromMs(ms) == Round2(ms, 36000)

(* new Date("YYYY-MM-DD").getTime(): midnight UTC of the day.               *)
DateTime(day) == day * DayMs

(* e.end ?? e.start: an entry read from storage may have no end.            *)
EndOrStart(e) == IF "end" \in DOMAIN e THEN e.end ELSE e.start

(* A range that ends at the midnight its last day begins with.             *)
InRangeToMidnight(e, from, to) ==
    /\ from = NoDate \/ e.start >= DateTime(from)
    /\ to = NoDate \/ EndOrStart(e) <= DateTime(to)

(* e.start >= from && (e.end ?? e.start) <= to, with from = -Infinity and   *)
(* to = Infinity for an empty date input.                                   *)
InRange(e, from, to) ==
    /\ from = NoDate \/ e.start >= DateTime(from)
    /\ to = NoDate \/ EndOrStart(e) <= DateTime(to) + 24 * 3600 * 1000 - 1

filteredEntriesOf(s, from, to) == Filter(s.entries, LAMBDA e : InRange(e, from, to))

(* A Map<ID, number> is a sequence of << key, value >> in insertion order.  *)
(* A set that overwrites the value of the key.                             *)
MapPut(pairs, key, n) ==
    IF \E i \in DOMAIN pairs : pairs[i][1] = key
    THEN [ i \in DOMAIN pairs |-> IF pairs[i][1] = key THEN << key, n >> ELSE pairs[i] ]
    ELSE Append(pairs, << key, n >>)

(* map.set(key, (map.get(key) || 0) + n)                                    *)
MapAdd(pairs, key, n) ==
    IF \E i \in DOMAIN pairs : pairs[i][1] = key
    THEN [ i \in DOMAIN pairs |->
             IF pairs[i][1] = key
             THEN << key, (IF pairs[i][2] # 0 THEN pairs[i][2] ELSE 0) + n >>
             ELSE pairs[i] ]
    ELSE Append(pairs, << key, 0 + n >>)

(* The loops of byClient and byProject over the first n entries.           *)
RECURSIVE DurByClient(_, _)
DurByClient(es, n) ==
    IF n = 0 THEN << >>
    ELSE MapAdd(DurByClient(es, n - 1), es[n].clientId, es[n].durationMs)

RECURSIVE DurByProject(_, _)
DurByProject(es, n) ==
    IF n = 0 THEN << >>
    ELSE MapAdd(DurByProject(es, n - 1), es[n].projectId, es[n].durationMs)

(* Array.from(map.entries()).map(([clientId, dur]) => ({ clientId, dur }))  *)
byClientOf(es) ==
    LET pairs == DurByClient(es, Len(es))
    IN [ i \in DOMAIN pairs |-> [ clientId |-> pairs[i][1], dur |-> pairs[i][2] ] ]

byProjectOf(es) ==
    LET pairs == DurByProject(es, Len(es))
    IN [ i \in DOMAIN pairs |-> [ projectId |-> pairs[i][1], dur |-> pairs[i][2] ] ]

(* Invoice entries chosen without looking at the client.                   *)
invoiceEntriesInAnyClient(s, client, from, to) ==
    IF ~IsSet(client) THEN << >>
    ELSE Filter(s.entries, LAMBDA e : e.billable /\ InRange(e, from, to))

(* Invoice entries chosen without looking at the billable flag.            *)
invoiceEntriesInAll(s, client, from, to) ==
    IF ~IsSet(client) THEN << >>
    ELSE Filter(s.entries, LAMBDA e : e.clientId = client /\ InRange(e, from, to))

invoiceEntriesIn(s, client, from, to) ==
    IF ~IsSet(client) THEN << >>
    ELSE Filter(s.entries, LAMBDA e : e.clientId = client /\ e.billable /\ InRange(e, from, to))

invoiceEntriesOf(s, client) == invoiceEntriesIn(s, client, invoiceFrom, invoiceTo)

(* A name that is the identifier itself where no project has it.          *)
ProjectNameOrId(s, projectId) ==
    IF MapHas(s.projects, projectId) /\ MapGet(s.projects, projectId).name # ""
    THEN MapGet(s.projects, projectId).name
    ELSE projectId

ProjectName(s, projectId) ==
    IF MapHas(s.projects, projectId) /\ MapGet(s.projects, projectId).name # ""
    THEN MapGet(s.projects, projectId).name
    ELSE "Unassigned"

(* The Map of the loop of invoiceLines after the first n entries: a         *)
(* sequence of [projectId, hours, rate, name] in insertion order.           *)
RECURSIVE LinesAcc(_, _, _)
LinesAcc(s, es, n) ==
    IF n = 0 THEN << >>
    ELSE LET acc == LinesAcc(s, es, n - 1)
             e == es[n]
             rate == rateFor(s, e.projectId, e.clientId)
             hours == hoursFromMs(e.durationMs)
             name == ProjectName(s, e.projectId)
         IN IF \E i \in DOMAIN acc : acc[i].projectId = e.projectId
            THEN [ i \in DOMAIN acc |->
                     IF acc[i].projectId = e.projectId
                     THEN [ projectId |-> e.projectId,
                            hours |-> acc[i].hours + hours,
                            rate |-> IF Truthy(rate) THEN rate ELSE acc[i].rate,
                            name |-> name ]
                     ELSE acc[i] ]
            ELSE Append(acc, [ projectId |-> e.projectId, hours |-> hours,
                               rate |-> rate, name |-> name ])

(* A line item whose amount is cut off after the cents.                    *)
LineItemTruncated(v) ==
    [ projectId |-> v.projectId,
      description |-> "Work on " \o v.name,
      hours |-> v.hours,
      rate |-> v.rate,
      amount |-> (v.hours * v.rate) \div 100 ]

(* hours in hundredths, rate in cents per hour, amount in cents.            *)
LineItem(v) ==
    [ projectId |-> v.projectId,
      description |-> "Work on " \o v.name,
      hours |-> v.hours,
      rate |-> v.rate,
      amount |-> Round2(v.hours * v.rate, 100) ]

LinesOf(s, es) == Map(LinesAcc(s, es, Len(es)), LineItem)

computeInvoiceLines(s, client) == LinesOf(s, invoiceEntriesOf(s, client))

RECURSIVE SumAmounts(_, _)
SumAmounts(lines, n) == IF n = 0 THEN 0 ELSE SumAmounts(lines, n - 1) + lines[n].amount

invoiceSubtotalOf(lines) == SumAmounts(lines, Len(lines))

(* A tax cut off after the cents.                                          *)
invoiceTaxTruncated(subtotal, rate) == (subtotal * rate) \div 100

invoiceTaxOf(subtotal, rate) == Round2(subtotal * rate, 100)

(* A total that leaves out the tax.                                        *)
invoiceTotalWithoutTax(subtotal, tax) == subtotal

invoiceTotalOf(subtotal, tax) == subtotal + tax

----------------------------------------------------------------------------
(* exportEntriesCSV and wrap.  A text is the sequence of its pieces: each   *)
(* comma, double quote and newline is a piece of its own, and so is each    *)
(* run of other characters between them.                                    *)

DoubleQuote == "\""
Delimiters == { ",", DoubleQuote, "\n" }

(* The pieces of the names and notes of the model; any other string of the *)
(* model is one run of ordinary characters.                                *)
Pieces(str) ==
    CASE str = "" -> << >>
      [] str = "a,b" -> << "a", ",", "b" >>
      [] str = "say \"hi\"" -> << "say ", DoubleQuote, "hi", DoubleQuote >>
      [] str = "two\nlines" -> << "two", "\n", "lines" >>
      [] str = ",\"\n" -> << ",", DoubleQuote, "\n" >>
      [] OTHER -> << str >>

(* String(n) of a number: digits, and possibly a sign, a point and an      *)
(* exponent; n is in hundredths.                                           *)
NumberText(n) == << ToString(n) >>

(* new Date(ms).toISOString(): digits, "-", ":", ".", "T" and "Z".         *)
toISOString(ms) == << ToString(ms) \o "Z" >>

RECURSIVE replaceAllQuotes(_)
replaceAllQuotes(text) ==
    IF text = << >> THEN << >>
    ELSE (IF Head(text) = DoubleQuote THEN << DoubleQuote, DoubleQuote >> ELSE << Head(text) >>)
         \o replaceAllQuotes(Tail(text))

(* A wrap that leaves the quotes of the text as they are.                  *)
wrapUndoubled(text) ==
    IF \E i \in DOMAIN text : text[i] \in Delimiters
    THEN << DoubleQuote >> \o text \o << DoubleQuote >>
    ELSE text

(* /[",\n]/.test(s) ? '"' + s.replaceAll('"', '""') + '"' : s               *)
wrap(text) ==
    IF \E i \in DOMAIN text : text[i] \in Delimiters
    THEN << DoubleQuote >> \o replaceAllQuotes(text) \o << DoubleQuote >>
    ELSE text

(* Array.prototype.join of texts.                                          *)
RECURSIVE Join(_, _)
Join(texts, sep) ==
    IF texts = << >> THEN << >>
    ELSE IF Len(texts) = 1 THEN texts[1]
    ELSE texts[1] \o << sep >> \o Join(Tail(texts), sep)

ClientName(s, clientId) ==
    IF MapHas(s.clients, clientId) /\ MapGet(s.clients, clientId).name # ""
    THEN MapGet(s.clients, clientId).name
    ELSE "Unassigned"

ExportHeader ==
    << << "Entry ID" >>, << "Client" >>, << "Project" >>, << "Start" >>, << "End" >>,
       << "Duration(h)" >>, << "Billable" >>, << "Notes" >>, << "Rate" >>, << "Amount" >> >>

(* The fields of the row of an entry, the names and the notes wrapped.     *)
ExportRow(s, e) ==
    LET rate == rateFor(s, e.projectId, e.clientId)
        amount == Round2(rate * hoursFromMs(e.durationMs), 100)
    IN << << e.id >>,
          wrap(Pieces(ClientName(s, e.clientId))),
          wrap(Pieces(ProjectName(s, e.projectId))),
          toISOString(e.start),
          IF "end" \in DOMAIN e /\ e.end # 0 THEN toISOString(e.end) ELSE << >>,
          NumberText(hoursFromMs(e.durationMs)),
          << IF e.billable THEN "Yes" ELSE "No" >>,
          wrap(Pieces(e.notes)),
          NumberText(rate),
          NumberText(amount) >>

(* The content handed to download().                                       *)
exportEntriesCSV(s, es) ==
    Join(<< Join(ExportHeader, ",") >> \o [ i \in DOMAIN es |-> Join(ExportRow(s, es[i]), ",") ],
         "\n")

----------------------------------------------------------------------------
(* The Home component: initial state and what follows every dispatch.       *)

(* What an earlier session left in localStorage: the k-th client,        *)
(* project, entry and invoice that session created.  Odd clients have a    *)
(* default rate, even projects a rate of their own; project k belongs to   *)
(* client k (modulo the number of clients), entry k to project k (modulo   *)
(* the number of projects; the entries past the last project were timed    *)
(* with a project and no client chosen), and invoice k bills client k for  *)
(* one minute at the client's rate.                                        *)
SeedClient(k) ==
    [ id |-> uid("client", k), name |-> "Acme",
      rate |-> IF k % 2 = 1 THEN 5000 ELSE 0, active |-> TRUE ]

SeedProject(k, nClients) ==
    [ id |-> uid("project", k), name |-> "Site",
      clientId |-> uid("client", ((k - 1) % nClients) + 1),
      rate |-> IF k % 2 = 0 THEN 7500 ELSE NoRate, archived |-> FALSE ]

SeedEntry(k, nClients, nProjects) ==
    [ id |-> uid("entry", k),
      clientId |-> IF k > nProjects THEN "unassigned_client"
                   ELSE SeedProject(((k - 1) % nProjects) + 1, nClients).clientId,
      projectId |-> uid("project", ((k - 1) % nProjects) + 1),
      start |-> 0, end |-> 60000, durationMs |-> 60000,
      notes |-> "", billable |-> TRUE ]

SeedInvoice(k) ==
    [ id |-> uid("inv", k), number |-> "INV-1970-" \o PadStart4(ToString(k)), clientId |-> uid("client", k),
      taxRate |-> 10, status |-> "draft",
      lineItems |-> << [ projectId |-> uid("project", k), description |-> "Work on Site",
                         hours |-> 2, rate |-> 5000, amount |-> 100 ] >>,
      subtotal |-> 100, tax |-> 10, total |-> 110 ]

(* Every add prepends: the newest of n elements comes first.               *)
NewestFirst(n, F(_)) == [ i \in 1..n |-> F(n + 1 - i) ]

SeedSnapshot(nClients, nProjects, nEntries, nInvoices) ==
    [ clients |-> NewestFirst(nClients, SeedClient),
      projects |-> NewestFirst(nProjects, LAMBDA k : SeedProject(k, nClients)),
      entries |-> NewestFirst(nEntries, LAMBDA k : SeedEntry(k, nClients, nProjects)),
      invoices |-> NewestFirst(nInvoices, SeedInvoice),
      runningTimer |-> NoTimer ]

(* The dependency of the tick effect: state.runningTimer is another value  *)
(* after the action.  A timer that is assigned is a new object; null is    *)
(* the same value as null.                                                 *)
runningTimerChanged(s, action) ==
    /\ "runningTimer" \in Assigned(s, action)
    /\ ~(s.runningTimer = NoTimer /\ reducer(s, action).runningTimer = NoTimer)

(* window.setInterval: a handle that no interval of the window has.  The   *)
(* handles are opaque; the model hands out the least free one.             *)
setInterval(ivs) ==
    CHOOSE n \in 1..(Cardinality(ivs) + 1) :
        n \notin ivs /\ \A m \in 1..(n - 1) : m \in ivs

(* A cleanup that forgets the handle without clearing the interval.        *)
tickCleanupKeepsInterval(ref, ivs) == ivs

(* The cleanup of the tick effect: the intervals left by                    *)
(* if (tickRef.current) window.clearInterval(tickRef.current).             *)
tickCleanup(ref, ivs) == IF ref # NoInterval THEN ivs \ { ref } ELSE ivs

(* The body of the tick effect after the cleanup: the handle it stores.    *)
tickSetup(timer, ivs) == IF timer # NoTimer THEN setInterval(ivs) ELSE NoInterval

(* The tick effect after a render: when its dependency has changed, the    *)
(* cleanup of the effect before it runs, then its body.                    *)
tickEffect(changed, timer) ==
    IF changed
    THEN LET cleared == tickCleanup(tickRef, intervals)
             id == tickSetup(timer, cleared)
         IN /\ tickRef' = id
            /\ intervals' = IF id # NoInterval THEN cleared \cup { id } ELSE cleared
    ELSE UNCHANGED << tickRef, intervals >>

(* The tick effect of the first render of a window that holds no interval. *)
MountTickRef(s) == IF Renders(s) THEN tickSetup(s.runningTimer, {}) ELSE NoInterval

MountIntervals(s) == { MountTickRef(s) } \ { NoInterval }

(* The component after its first render: the state loadState built from    *)
(* the stored snapshot, persisted again by the effect, the forms empty.    *)
InitFrom(raw, nClients, nProjects, nEntries, nInvoices) ==
    /\ state = loadState(raw)
    /\ storage = persistState(state)
    /\ uidCount = [ client |-> nClients, project |-> nProjects,
                    entry |-> nEntries, inv |-> nInvoices ]
    /\ selClient = Undefined
    /\ selProject = Undefined
    /\ notes = ""
    /\ billable = TRUE
    /\ invoiceClient = Undefined
    /\ taxRate = 0
    /\ invoiceLines = << >>
    /\ fromDate = NoDate
    /\ toDate = NoDate
    /\ invoiceFrom = NoDate
    /\ invoiceTo = NoDate
    /\ tickRef = MountTickRef(state)
    /\ intervals = MountIntervals(state)
    /\ tick = 0

(* First start: nothing stored.                                            *)
InitEmpty == InitFrom(NoStorage, 0, 0, 0, 0)

(* Start over the clients, the projects and the invoice of an earlier      *)
(* session.                                                                *)
Init == InitFrom(SeedSnapshot(MaxClients, MaxProjects, 0, 1), MaxClients, MaxProjects, 0, 1)

(* useMemo(invoiceLines, [invoiceEntries, projectMap]): invoiceEntries is   *)
(* recomputed (a new array) when state.entries is a new array, projectMap   *)
(* when state.projects is; clientMap is not among the dependencies.         *)
invoiceLinesDepsChanged(assigned) == assigned \cap {"entries", "projects"} # {}

(* dispatch(action), the render that follows, and the effects of it.        *)
dispatch(action) ==
    /\ state' = reducer(state, action)
    /\ storage' = persistState(state')
    /\ tickEffect(runningTimerChanged(state, action), state'.runningTimer)
    /\ tick' = tick
    /\ invoiceLines' = IF invoiceLinesDepsChanged(Assigned(state, action))
                       THEN computeInvoiceLines(state', invoiceClient)
                       ELSE invoiceLines

FormUnchanged == UNCHANGED << selClient, selProject, notes, billable, invoiceClient, taxRate,
                        fromDate, toDate, invoiceFrom, invoiceTo >>

----------------------------------------------------------------------------
(* Dashboard: timer form and timer buttons.                                 *)

ActiveClientIds == { c.id : c \in { x \in Range(state.clients) : x.active } }

SelectableProjectIds(client) ==
    { p.id : p \in { x \in Range(state.projects) :
                        ~x.archived /\ (~IsSet(client) \/ x.clientId = client) } }

(* setSelClient, and the effect that resets the project when it changes.    *)
SetSelClient ==
    \E c \in ActiveClientIds :
        /\ selClient' = c
        /\ selProject' = IF c # selClient THEN Undefined ELSE selProject
        /\ UNCHANGED << state, storage, uidCount, tickRef, intervals, tick, notes, billable, invoiceClient,
                        taxRate, invoiceLines,
                        fromDate, toDate, invoiceFrom, invoiceTo >>

SetSelProject ==
    \E p \in SelectableProjectIds(selClient) :
        /\ selProject' = p
        /\ UNCHANGED << state, storage, uidCount, tickRef, intervals, tick, selClient, notes, billable,
                        invoiceClient, taxRate, invoiceLines,
                        fromDate, toDate, invoiceFrom, invoiceTo >>

SetNotes ==
    \E n \in NotesInputs :
        /\ notes' = n
        /\ UNCHANGED << state, storage, uidCount, tickRef, intervals, tick, selClient, selProject, billable,
                        invoiceClient, taxRate, invoiceLines,
                        fromDate, toDate, invoiceFrom, invoiceTo >>

SetBillable ==
    \E b \in BillableInputs :
        /\ billable' = b
        /\ UNCHANGED << state, storage, uidCount, tickRef, intervals, tick, selClient, selProject, notes,
                        invoiceClient, taxRate, invoiceLines,
                        fromDate, toDate, invoiceFrom, invoiceTo >>

(* A payload that leaves the notes of the form behind.                     *)
StartPayloadWithoutNotes(now) ==
    [ clientId |-> selClient, projectId |-> selProject, notes |-> "",
      billable |-> billable, start |-> now ]

StartPayload(now) ==
    [ clientId |-> selClient, projectId |-> selProject, notes |-> notes,
      billable |-> billable, start |-> now ]

startTimer ==
    /\ state.runningTimer = NoTimer
    /\ \E now \in Instants :
          dispatch([ type |-> "START_TIMER", payload |-> StartPayload(now) ])
    /\ FormUnchanged
    /\ UNCHANGED uidCount

stopTimer ==
    /\ state.runningTimer # NoTimer
    /\ uidCount.entry < MaxEntries
    /\ \E now \in Instants :
          dispatch([ type |-> "STOP_TIMER",
                     payload |-> [ end |-> now, id |-> uid("entry", uidCount.entry + 1) ] ])
    /\ uidCount' = [ uidCount EXCEPT !.entry = @ + 1 ]
    /\ notes' = ""
    /\ UNCHANGED << selClient, selProject, billable, invoiceClient, taxRate,
                        fromDate, toDate, invoiceFrom, invoiceTo >>

resetTimer ==
    /\ state.runningTimer # NoTimer
    /\ dispatch([ type |-> "RESET_TIMER" ])
    /\ FormUnchanged
    /\ UNCHANGED uidCount

----------------------------------------------------------------------------
(* Delete buttons of the tables.                                            *)

DeleteEntry ==
    /\ \E e \in Range(state.entries) :
          dispatch([ type |-> "DELETE_ENTRY", payload |-> [ id |-> e.id ] ])
    /\ FormUnchanged
    /\ UNCHANGED uidCount

DeleteClient ==
    /\ \E c \in Range(state.clients) :
          dispatch([ type |-> "DELETE_CLIENT", payload |-> [ id |-> c.id ] ])
    /\ FormUnchanged
    /\ UNCHANGED uidCount

DeleteProject ==
    /\ \E p \in Range(state.projects) :
          dispatch([ type |-> "DELETE_PROJECT", payload |-> [ id |-> p.id ] ])
    /\ FormUnchanged
    /\ UNCHANGED uidCount

DeleteInvoice ==
    /\ \E i \in Range(state.invoices) :
          dispatch([ type |-> "DELETE_INVOICE", payload |-> [ id |-> i.id ] ])
    /\ FormUnchanged
    /\ UNCHANGED uidCount

----------------------------------------------------------------------------
(* ClientDialog, ProjectDialog, EntryDialog: a dialog is modal, so opening  *)
(* it, filling it and pressing Save is one step.                            *)

(* String.prototype.trim on the name inputs.                                *)
Trim(str) == IF str = " " THEN "" ELSE str

ClientPayloadNew(id, name, rate, active) ==
    [ id |-> id, name |-> Trim(name), rate |-> rate, active |-> active ]

ClientPayloadEdit(client, name, rate, active) ==
    [ client EXCEPT !.name = Trim(name), !.rate = rate, !.active = active ]

(* A check of the name as it was typed.                                    *)
ClientFormValidUntrimmed(name) == name # ""

(* if (!name.trim()) return;                                                *)
ClientFormValid(name) == Trim(name) # ""

(* Save with the dialog filled in with name, rate and active.              *)
SaveNewClientWith(name, rate, active) ==
    /\ ClientFormValid(name)
    /\ dispatch([ type |-> "ADD_CLIENT",
                  payload |-> ClientPayloadNew(uid("client", uidCount.client + 1),
                                               name, rate, active) ])
    /\ uidCount' = [ uidCount EXCEPT !.client = @ + 1 ]
    /\ FormUnchanged

SaveNewClient ==
    /\ uidCount.client < MaxClients
    /\ \E name \in NameInputs, rate \in ClientRateInputs, active \in ActiveInputs :
          SaveNewClientWith(name, rate, active)

SaveEditedClientWith(client, name, rate, active) ==
    /\ ClientFormValid(name)
    /\ dispatch([ type |-> "UPDATE_CLIENT",
                  payload |-> ClientPayloadEdit(client, name, rate, active) ])
    /\ FormUnchanged
    /\ UNCHANGED uidCount

SaveEditedClient ==
    \E client \in Range(state.clients), name \in NameInputs,
       rate \in ClientRateInputs, active \in ActiveInputs :
        SaveEditedClientWith(client, name, rate, active)

(* rate || undefined                                                        *)
OrUndefined(rate) == IF rate = 0 THEN NoRate ELSE rate

ProjectPayloadNew(id, name, clientId, rate, archived) ==
    [ id |-> id, name |-> Trim(name), clientId |-> clientId,
      rate |-> OrUndefined(rate), archived |-> archived ]

ProjectPayloadEdit(project, name, clientId, rate, archived) ==
    [ project EXCEPT !.name = Trim(name), !.clientId = clientId,
                     !.rate = OrUndefined(rate), !.archived = archived ]

(* A check of the name alone.                                              *)
ProjectFormValidNameOnly(name, clientId) == Trim(name) # ""

(* if (!name.trim() || !clientId) return;                                   *)
ProjectFormValid(name, clientId) == Trim(name) # "" /\ IsSet(clientId)

(* The client select offers every client; it starts at clients[0], which   *)
(* is undefined while there is no client.                                  *)
NewProjectClientInputs ==
    IF state.clients = << >> THEN { Undefined } ELSE Ids(state.clients)

SaveNewProjectWith(name, clientId, rate, archived) ==
    /\ ProjectFormValid(name, clientId)
    /\ dispatch([ type |-> "ADD_PROJECT",
                  payload |-> ProjectPayloadNew(uid("project", uidCount.project + 1),
                                                name, clientId, rate, archived) ])
    /\ uidCount' = [ uidCount EXCEPT !.project = @ + 1 ]
    /\ FormUnchanged

SaveNewProject ==
    /\ uidCount.project < MaxProjects
    /\ \E name \in NameInputs, clientId \in NewProjectClientInputs,
          rate \in ProjectRateInputs, archived \in ArchivedInputs :
          SaveNewProjectWith(name, clientId, rate, archived)

SaveEditedProjectWith(project, name, clientId, rate, archived) ==
    /\ ProjectFormValid(name, clientId)
    /\ dispatch([ type |-> "UPDATE_PROJECT",
                  payload |-> ProjectPayloadEdit(project, name, clientId, rate, archived) ])
    /\ FormUnchanged
    /\ UNCHANGED uidCount

SaveEditedProject ==
    \E project \in Range(state.projects) :
    \E name \in NameInputs, clientId \in Ids(state.clients) \cup { project.clientId },
       rate \in ProjectRateInputs, archived \in ArchivedInputs :
        SaveEditedProjectWith(project, name, clientId, rate, archived)

(* a || b on numbers: 0 and undefined are falsy.                            *)
NumOr(a, b) == IF a # 0 /\ a # NoInput THEN a ELSE b

(* The Save handler of EntryDialog, edit branch: start and end are the     *)
(* datetime-local inputs (NoInput when empty).                              *)
EntryPayloadEdit(entry, clientId, projectId, start, end, n, b) ==
    LET startMs == IF start # NoInput THEN start ELSE entry.start
        endMs == IF end # NoInput THEN end ELSE NumOr(entry.end, entry.start)
        durationMs == Max0(NumOr(endMs, startMs) - startMs)
    IN [ entry EXCEPT !.clientId = IF IsSet(clientId) THEN clientId ELSE entry.clientId,
                      !.projectId = IF IsSet(projectId) THEN projectId ELSE entry.projectId,
                      !.start = startMs, !.end = endMs, !.durationMs = durationMs,
                      !.notes = n, !.billable = b ]

(* ... and the add branch.                                                  *)
EntryPayloadNew(id, clientId, projectId, start, end, n, b) ==
    LET startMs == start
        endMs == IF end # NoInput THEN end ELSE startMs
        durationMs == Max0(endMs - startMs)
    IN [ id |-> id, clientId |-> clientId, projectId |-> projectId, start |-> startMs,
         end |-> endMs, durationMs |-> durationMs, notes |-> n, billable |-> b ]

(* The project select offers the unarchived projects of the client chosen  *)
(* at that moment (all of them while none is chosen); choosing a client     *)
(* afterwards keeps the project.                                            *)
(* A check of the client and the project alone.                            *)
EntryFormValidWithoutStart(clientId, projectId, start) == IsSet(clientId) /\ IsSet(projectId)

(* if (!clientId || !projectId || !start) return;                           *)
EntryFormValid(clientId, projectId, start) ==
    IsSet(clientId) /\ IsSet(projectId) /\ start # NoInput

SaveNewEntryWith(clientId, projectId, start, end, n, b) ==
    /\ EntryFormValid(clientId, projectId, start)
    /\ dispatch([ type |-> "ADD_ENTRY",
                  payload |-> EntryPayloadNew(uid("entry", uidCount.entry + 1),
                                              clientId, projectId, start, end, n, b) ])
    /\ uidCount' = [ uidCount EXCEPT !.entry = @ + 1 ]
    /\ FormUnchanged

SaveNewEntry ==
    /\ uidCount.entry < MaxEntries
    /\ \E clientId \in Ids(state.clients) \cup {Undefined},
          projectId \in SelectableProjectIds(Undefined) \cup {Undefined},
          start \in DateTimeInputs, end \in DateTimeInputs,
          n \in NotesInputs, b \in BillableInputs :
          SaveNewEntryWith(clientId, projectId, start, end, n, b)

SaveEditedEntry ==
    /\ \E entry \in Range(state.entries) :
       \E clientId \in Ids(state.clients) \cup { entry.clientId },
          projectId \in SelectableProjectIds(Undefined) \cup { entry.projectId },
          start \in DateTimeInputs, end \in DateTimeInputs,
          n \in NotesInputs, b \in BillableInputs :
          dispatch([ type |-> "UPDATE_ENTRY",
                     payload |-> EntryPayloadEdit(entry, clientId, projectId, start, end, n, b) ])
    /\ FormUnchanged
    /\ UNCHANGED uidCount

----------------------------------------------------------------------------
(* Invoice form, createInvoice, and a reload of the page.                   *)

(* setInvoiceClient: invoiceEntries depends on invoiceClient.               *)
SetInvoiceClient ==
    \E c \in Ids(state.clients) :
        /\ invoiceClient' = c
        /\ invoiceLines' = IF c # invoiceClient
                           THEN computeInvoiceLines(state, c)
                           ELSE invoiceLines
        /\ UNCHANGED << state, storage, uidCount, tickRef, intervals, tick, selClient, selProject, notes,
                        billable, taxRate,
                        fromDate, toDate, invoiceFrom, invoiceTo >>

SetTaxRate ==
    \E r \in TaxRateInputs :
        /\ taxRate' = r
        /\ UNCHANGED << state, storage, uidCount, tickRef, intervals, tick, selClient, selProject, notes,
                        billable, invoiceClient, invoiceLines,
                        fromDate, toDate, invoiceFrom, invoiceTo >>

(* A new range gives a new invoiceEntries array, so the lines are computed *)
(* again.                                                                  *)
SetInvoiceFrom ==
    \E d \in DateInputs :
        /\ invoiceFrom' = d
        /\ invoiceLines' = IF d # invoiceFrom
                           THEN LinesOf(state, invoiceEntriesIn(state, invoiceClient, d, invoiceTo))
                           ELSE invoiceLines
        /\ UNCHANGED << state, storage, uidCount, tickRef, intervals, tick, selClient, selProject, notes, billable,
                        invoiceClient, taxRate, fromDate, toDate, invoiceTo >>

SetInvoiceTo ==
    \E d \in DateInputs :
        /\ invoiceTo' = d
        /\ invoiceLines' = IF d # invoiceTo
                           THEN LinesOf(state, invoiceEntriesIn(state, invoiceClient, invoiceFrom, d))
                           ELSE invoiceLines
        /\ UNCHANGED << state, storage, uidCount, tickRef, intervals, tick, selClient, selProject, notes, billable,
                        invoiceClient, taxRate, fromDate, toDate, invoiceFrom >>

(* Reports tab: the date inputs of the range.                              *)
SetFromDate ==
    \E d \in DateInputs :
        /\ fromDate' = d
        /\ UNCHANGED << state, storage, uidCount, tickRef, intervals, tick, selClient, selProject, notes, billable,
                        invoiceClient, taxRate, invoiceLines, toDate, invoiceFrom, invoiceTo >>

SetToDate ==
    \E d \in DateInputs :
        /\ toDate' = d
        /\ UNCHANGED << state, storage, uidCount, tickRef, intervals, tick, selClient, selProject, notes, billable,
                        invoiceClient, taxRate, invoiceLines, fromDate, invoiceFrom, invoiceTo >>

(* A number that counts the invoices ever created.                         *)
InvoiceNumberBySerial(s) == "INV-1970-" \o PadStart4(ToString(uidCount.inv + 1))

(* A number that counts the stored invoices from zero.                     *)
InvoiceNumberFromZero(s) == "INV-1970-" \o PadStart4(ToString(Len(s.invoices)))

(* The year of the clock: the model's instants lie in 1970.                *)
InvoiceNumber(s) == "INV-1970-" \o PadStart4(ToString(Len(s.invoices) + 1))

InvoicePayload(s, id, client, lines, rate) ==
    LET subtotal == invoiceSubtotalOf(lines)
        tax == invoiceTaxOf(subtotal, rate)
    IN [ id |-> id,
         number |-> InvoiceNumber(s),
         clientId |-> client,
         taxRate |-> rate,
         status |-> "draft",
         lineItems |-> lines,
         subtotal |-> subtotal,
         tax |-> tax,
         total |-> invoiceTotalOf(subtotal, tax) ]

(* The handler for the client chosen in the form, if any.                  *)
createInvoiceFor(client) ==
    /\ IsSet(client)
    /\ dispatch([ type |-> "ADD_INVOICE",
                  payload |-> InvoicePayload(state, uid("inv", uidCount.inv + 1),
                                             client, invoiceLines, taxRate) ])
    /\ uidCount' = [ uidCount EXCEPT !.inv = @ + 1 ]
    /\ FormUnchanged

createInvoice ==
    /\ uidCount.inv < MaxInvoices
    /\ createInvoiceFor(invoiceClient)

(* A reload: the component is mounted again, its state initialised by       *)
(* loadState, every form and memo at its initial value, and the             *)
(* persistence effect run on the first render.                              *)
Reload ==
    /\ state' = loadState(storage)
    /\ storage' = IF Renders(state') THEN persistState(state') ELSE storage
    /\ selClient' = Undefined
    /\ selProject' = Undefined
    /\ notes' = ""
    /\ billable' = TRUE
    /\ invoiceClient' = Undefined
    /\ taxRate' = 0
    /\ fromDate' = NoDate
    /\ toDate' = NoDate
    /\ invoiceFrom' = NoDate
    /\ invoiceTo' = NoDate
    /\ invoiceLines' = << >>
    /\ tickRef' = MountTickRef(state')
    /\ intervals' = MountIntervals(state')
    /\ tick' = 0
    /\ UNCHANGED uidCount

(* The callback of the tick interval: forceTick((v) => v + 1).  The state  *)
(* is the same object after it, so neither the persistence effect nor the  *)
(* tick effect runs.                                                       *)
Tick ==
    /\ tick < MaxForceTick
    /\ \E id \in intervals : tick' = tick + 1
    /\ UNCHANGED << state, storage, uidCount, invoiceLines, tickRef, intervals >>
    /\ FormUnchanged

(* A session at the dashboard over the stored clients and projects: the   *)
(* timer form, the timer, the delete buttons, and reloads.                 *)
Next ==
    \/ SetSelClient
    \/ SetSelProject
    \/ startTimer
    \/ stopTimer
    \/ resetTimer
    \/ DeleteEntry
    \/ DeleteClient
    \/ DeleteProject
    \/ Reload

Spec == Init /\ [][Next]_vars

(* Deleting from a larger stored snapshot, with or without a timer running *)
(* for one of its clients.                                                 *)
InitCascade ==
    InitFrom(SeedSnapshot(MaxStored, MaxStored, MaxStored + 1, 1),
             MaxStored, MaxStored, MaxStored + 1, 1)

NextCascade ==
    \/ SetSelClient
    \/ SetSelProject
    \/ SetNotes
    \/ SetBillable
    \/ startTimer
    \/ resetTimer
    \/ DeleteEntry
    \/ DeleteClient
    \/ DeleteProject
    \/ DeleteInvoice

SpecCascade == InitCascade /\ [][NextCascade]_vars

(* Setting up clients and projects from empty storage.                     *)
NextSetup ==
    \/ SaveNewClient
    \/ SaveEditedClient
    \/ DeleteClient
    \/ SaveNewProject
    \/ SaveEditedProject
    \/ DeleteProject

SpecSetup == InitEmpty /\ [][NextSetup]_vars

(* Invoicing the stored entries while the clients are edited; the invoices *)
(* of the earlier session were deleted again, and all identifiers but one  *)
(* are used up.                                                            *)
InitInvoice ==
    InitFrom(SeedSnapshot(MaxClients, MaxProjects, MaxEntries, 0),
             MaxClients, MaxProjects, MaxEntries, MaxInvoices - 1)

NextInvoice ==
    \/ SetInvoiceClient
    \/ SetTaxRate
    \/ SaveEditedClient
    \/ DeleteEntry
    \/ createInvoice
    \/ DeleteInvoice
    \/ Reload

SpecInvoice == InitInvoice /\ [][NextInvoice]_vars

(* The date ranges of the reports tab and of the invoice form, over one    *)
(* stored entry that starts and ends on the boundaries of the days a date  *)
(* input can name; it may have been stored without an end, as the          *)
(* TimeEntry type allows.                                                  *)
DayBoundaries ==
    UNION { { DateTime(d) - 1, DateTime(d), DateTime(d) + DayMs - 1, DateTime(d) + DayMs } :
            d \in 0..MaxDay }

StoredEntryAt(start, end) ==
    [ id |-> uid("entry", 1), clientId |-> uid("client", 1), projectId |-> uid("project", 1),
      start |-> start, end |-> end, durationMs |-> Max0(end - start),
      notes |-> "", billable |-> TRUE ]

StoredEntryFrom(start) ==
    [ id |-> uid("entry", 1), clientId |-> uid("client", 1), projectId |-> uid("project", 1),
      start |-> start, durationMs |-> 0, notes |-> "", billable |-> TRUE ]

InitRange ==
    \E e \in { StoredEntryAt(s, n) : s \in DayBoundaries, n \in DayBoundaries }
              \cup { StoredEntryFrom(s) : s \in DayBoundaries } :
        InitFrom([ SeedSnapshot(1, 1, 0, 0) EXCEPT !.entries = << e >> ], 1, 1, 1, 0)

NextRange ==
    \/ SetFromDate
    \/ SetToDate
    \/ SetInvoiceClient
    \/ SetInvoiceFrom
    \/ SetInvoiceTo

SpecRange == InitRange /\ [][NextRange]_vars

(* Invoicing two stored entries of one minute each: each is for either    *)
(* client and either project, billable or not, on the first or the second  *)
(* day; the first client bills 53.40 an hour.                              *)
BilledClient(k) == [ SeedClient(k) EXCEPT !.rate = IF k = 1 THEN 5340 ELSE 0 ]

BilledEntry(k, clientId, projectId, b, day) ==
    [ id |-> uid("entry", k), clientId |-> clientId, projectId |-> projectId,
      start |-> DateTime(day), end |-> DateTime(day) + 60000, durationMs |-> 60000,
      notes |-> "", billable |-> b ]

BilledEntries(k) ==
    { BilledEntry(k, c, p, b, d) :
        c \in { uid("client", 1), uid("client", 2) },
        p \in { uid("project", 1), uid("project", 2) },
        b \in BOOLEAN, d \in 0..MaxDay }

InitBilling ==
    \E e1 \in BilledEntries(1), e2 \in BilledEntries(2) :
        InitFrom([ SeedSnapshot(2, 2, 0, 0) EXCEPT !.clients = NewestFirst(2, BilledClient),
                                                   !.entries = << e2, e1 >> ],
                 2, 2, 2, MaxInvoices - 1)

NextBilling ==
    \/ SetInvoiceClient
    \/ SetTaxRate
    \/ SetInvoiceFrom
    \/ SetInvoiceTo
    \/ DeleteEntry
    \/ createInvoice
    \/ DeleteInvoice

SpecBilling == InitBilling /\ [][NextBilling]_vars

(* Adding to and deleting from every collection, with one client, one      *)
(* project and one entry stored: a second client and project, a timed      *)
(* entry, an invoice.                                                      *)
InitStore == InitFrom(SeedSnapshot(1, 1, 1, 0), 1, 1, 1, MaxInvoices - 1)

NextStore ==
    \/ SaveNewClient
    \/ SaveNewProject
    \/ startTimer
    \/ stopTimer
    \/ resetTimer
    \/ SetInvoiceClient
    \/ createInvoice
    \/ DeleteClient
    \/ DeleteProject
    \/ DeleteEntry

SpecStore == InitStore /\ [][NextStore]_vars

(* Opening the page over whatever the browser holds under the storage key: *)
(* nothing, text that is not JSON, a snapshot of an earlier session (empty, *)
(* or with data and a running timer), or JSON with only some of the fields *)
(* of a snapshot (none of them for null, a number or an empty object).     *)
(* The page is first rendered on the server, where loadState gives the     *)
(* empty state; in the browser the component is mounted by Reload.         *)
Restrict(rec, fields) == [ f \in fields |-> rec[f] ]

TimedSnapshot ==
    [ SeedSnapshot(1, 1, 1, 1) EXCEPT
        !.runningTimer = << [ clientId |-> uid("client", 1), projectId |-> uid("project", 1),
                              notes |-> "", billable |-> TRUE, start |-> 0 ] >> ]

StoredSnapshots == { EmptyState, SeedSnapshot(1, 1, 1, 1), TimedSnapshot }

RawValues ==
    { NoStorage, Malformed }
    \cup { Restrict(snap, fields) :
              snap \in StoredSnapshots, fields \in SUBSET (Collections \cup { "runningTimer" }) }

InitLoad ==
    /\ storage \in RawValues
    /\ state = EmptyState
    /\ uidCount = [ client |-> 1, project |-> 1, entry |-> 1, inv |-> 1 ]
    /\ selClient = Undefined
    /\ selProject = Undefined
    /\ notes = ""
    /\ billable = TRUE
    /\ invoiceClient = Undefined
    /\ taxRate = 0
    /\ invoiceLines = << >>
    /\ fromDate = NoDate
    /\ toDate = NoDate
    /\ invoiceFrom = NoDate
    /\ invoiceTo = NoDate
    /\ tickRef = MountTickRef(state)
    /\ intervals = MountIntervals(state)
    /\ tick = 0

NextLoad == Reload

SpecLoad == InitLoad /\ [][NextLoad]_vars

(* The reports tab over three stored entries: each is for either client    *)
(* and either project, on the first or the second day, and lasts no time   *)
(* or as many minutes as its number.                                       *)
ReportedEntry(k, clientId, projectId, durationMs, day) ==
    [ id |-> uid("entry", k), clientId |-> clientId, projectId |-> projectId,
      start |-> DateTime(day), end |-> DateTime(day) + durationMs, durationMs |-> durationMs,
      notes |-> "", billable |-> TRUE ]

ReportedEntries(k) ==
    { ReportedEntry(k, c, p, d, day) :
        c \in { uid("client", 1), uid("client", 2) },
        p \in { uid("project", 1), uid("project", 2) },
        d \in { 0, k * 60000 }, day \in 0..MaxDay }

InitReports ==
    \E e1 \in ReportedEntries(1), e2 \in ReportedEntries(2), e3 \in ReportedEntries(3) :
        InitFrom([ SeedSnapshot(2, 2, 0, 0) EXCEPT !.entries = << e3, e2, e1 >> ], 2, 2, 3, 0)

NextReports ==
    \/ SetFromDate
    \/ SetToDate
    \/ DeleteEntry

SpecReports == InitReports /\ [][NextReports]_vars

(* Exporting two stored entries, of the first and of the second day: the   *)
(* client, the project and the notes of each entry have names and notes    *)
(* with commas, quotes and newlines in them; the second entry may have     *)
(* been timed with no client chosen.                                       *)
ExportedNames == { "Acme", "a,b", "say \"hi\"", "two\nlines", ",\"\n" }
ExportedNotes == ExportedNames \cup { "" }

ExportedEntry(k, clientId, n) ==
    [ SeedEntry(k, 1, 1) EXCEPT !.clientId = clientId, !.notes = n,
                                !.start = DateTime(k - 1), !.end = DateTime(k - 1) + 60000 ]

InitExport ==
    \E cn \in ExportedNames, pn \in ExportedNames, n1 \in ExportedNotes, n2 \in ExportedNotes,
       c2 \in { uid("client", 1), "unassigned_client" } :
        InitFrom([ SeedSnapshot(1, 1, 0, 0) EXCEPT
                     !.clients = << [ SeedClient(1) EXCEPT !.name = cn ] >>,
                     !.projects = << [ SeedProject(1, 1) EXCEPT !.name = pn ] >>,
                     !.entries = << ExportedEntry(2, c2, n2),
                                    ExportedEntry(1, uid("client", 1), n1) >> ],
                 1, 1, 2, 0)

NextExport ==
    \/ SetFromDate
    \/ SetToDate
    \/ DeleteEntry
    \/ DeleteClient

SpecExport == InitExport /\ [][NextExport]_vars

(* Filling in the dialogs and the invoice form from empty storage, while   *)
(* one more client, project, entry and invoice can be made.                *)
InitDialogs ==
    InitFrom(NoStorage, MaxClients - 1, MaxProjects - 1, MaxEntries - 1, MaxInvoices - 1)

NextDialogs ==
    \/ SaveNewClient
    \/ SaveEditedClient
    \/ SaveNewProject
    \/ SaveEditedProject
    \/ SaveNewEntry
    \/ SetInvoiceClient
    \/ createInvoice

SpecDialogs == InitDialogs /\ [][NextDialogs]_vars

(* Invoicing Acme, which bills 100 an hour, for its project Site, which    *)
(* has no rate of its own, and one billable entry of an hour on the second *)
(* day.                                                                    *)
AcmeSnapshot ==
    [ SeedSnapshot(1, 1, 0, 0) EXCEPT
        !.clients = << [ SeedClient(1) EXCEPT !.rate = 10000 ] >>,
        !.entries = << [ SeedEntry(1, 1, 1) EXCEPT !.start = DateTime(1),
                                                   !.end = DateTime(1) + 3600000,
                                                   !.durationMs = 3600000 ] >> ]

InitAcme == InitFrom(AcmeSnapshot, 1, 1, 1, 0)

NextAcme ==
    \/ SetInvoiceClient
    \/ SetTaxRate
    \/ SetInvoiceFrom
    \/ SetInvoiceTo
    \/ createInvoice
    \/ DeleteInvoice

SpecAcme == InitAcme /\ [][NextAcme]_vars

(* Creating and deleting invoices, one after another, for the stored       *)
(* client with one project and one entry, over the ranges and tax rates of *)
(* the invoice form.                                                       *)
InitNumbering == InitFrom(SeedSnapshot(1, 1, 1, 0), 1, 1, 1, 0)

NextNumbering ==
    \/ SetInvoiceClient
    \/ SetTaxRate
    \/ SetInvoiceFrom
    \/ createInvoice
    \/ DeleteInvoice

SpecNumbering == InitNumbering /\ [][NextNumbering]_vars

(* A session at the timer form alone: the client, the project, the notes  *)
(* and the billable flag are chosen, and timers are started, stopped and   *)
(* reset.                                                                  *)
InitTimer == InitFrom(SeedSnapshot(1, 1, 0, 0), 1, 1, 0, 0)

NextTimer ==
    \/ SetSelClient
    \/ SetSelProject
    \/ SetNotes
    \/ SetBillable
    \/ startTimer
    \/ stopTimer
    \/ resetTimer

SpecTimer == InitTimer /\ [][NextTimer]_vars

(* The timer started, stopped, reset and started again while the interval  *)
(* ticks, with reloads of the page in between.                             *)
InitTick == InitFrom(SeedSnapshot(1, 1, 0, 0), 1, 1, 0, 0)

NextTick ==
    \/ SetSelClient
    \/ startTimer
    \/ stopTimer
    \/ resetTimer
    \/ Tick
    \/ Reload

SpecTick == InitTick /\ [][NextTick]_vars

(* Two stored entries of one client and one project, while the rates and   *)
(* the client of the projects are edited and the invoice client is chosen. *)
InitRates ==
    InitFrom([ SeedSnapshot(2, 2, 2, 0) EXCEPT
                 !.entries = << [ SeedEntry(2, 2, 2) EXCEPT !.clientId = uid("client", 1),
                                                            !.projectId = uid("project", 1) ],
                                SeedEntry(1, 2, 2) >> ],
             2, 2, 2, 0)

NextRates ==
    \/ SetInvoiceClient
    \/ SaveEditedClient
    \/ SaveEditedProject
    \/ DeleteEntry

SpecRates == InitRates /\ [][NextRates]_vars

(* Two stored clients with a project each: entries are added and edited in *)
(* the entry dialog, and projects are edited in the project dialog.        *)
InitAssign == InitFrom(SeedSnapshot(2, 2, 0, 0), 2, 2, MaxEntries - 1, 0)

NextAssign ==
    \/ SaveNewEntry
    \/ SaveEditedEntry
    \/ SaveEditedProject
    \/ DeleteEntry

SpecAssign == InitAssign /\ [][NextAssign]_vars

(* Editing the stored clients and projects, two of each, beside two stored *)
(* entries and two stored invoices.                                        *)
InitUpdates == InitFrom(SeedSnapshot(2, 2, 2, 2), 2, 2, 2, 2)

NextUpdates ==
    \/ SaveEditedClient
    \/ SaveEditedProject
    \/ DeleteEntry
    \/ DeleteInvoice

SpecUpdates == InitUpdates /\ [][NextUpdates]_vars

(* Entries made by the timer and in the entry dialog, for one stored       *)
(* client with one project; the entries of the earlier session were        *)
(* deleted again, and their identifiers are used up.                       *)
InitEntries == InitFrom(SeedSnapshot(1, 1, 0, 0), 1, 1, MaxEntries - 1, 0)

NextEntries ==
    \/ startTimer
    \/ stopTimer
    \/ resetTimer
    \/ SaveNewEntry
    \/ SaveEditedEntry
    \/ DeleteEntry

SpecEntries == InitEntries /\ [][NextEntries]_vars

----------------------------------------------------------------------------
(* Store transitions as the claims quantify them: every payload of a       *)
(* bounded universe, applied to the current state.                         *)

TimerPayloads ==
    [ clientId : ClientIds \cup {Undefined}, projectId : ProjectIds \cup {Undefined},
      notes : NotesInputs, billable : BOOLEAN, start : Instants ]

StartTimerOf(p) == [ type |-> "START_TIMER", payload |-> p ]

StopTimerOf(end) ==
    [ type |-> "STOP_TIMER",
      payload |-> [ end |-> end, id |-> uid("entry", uidCount.entry + 1) ] ]

ResetTimerOf == [ type |-> "RESET_TIMER" ]

(* seq without its i-th element.                                           *)
RemoveAt(seq, i) == [ j \in 1..(Len(seq) - 1) |-> IF j < i THEN seq[j] ELSE seq[j + 1] ]

(* C1: in every state where a timer is active, the START_TIMER transition  *)
(* with any payload leaves the active timer as it was, its start instant   *)
(* being that of the first start.                                          *)
C1_DoubleStartRejected ==
    state.runningTimer # NoTimer =>
        \A p \in TimerPayloads :
            reducer(state, StartTimerOf(p)).runningTimer = state.runningTimer

(* C2: with a timer active, STOP_TIMER with any end instant clears the     *)
(* timer and adds exactly one entry, whose start is the timer's, whose end *)
(* is the given instant and whose duration is max(0, end - start); the     *)
(* entries there were, the clients, the projects and the invoices stay.    *)
C2_StopTimerAddsOneEntry ==
    state.runningTimer # NoTimer =>
        \A end \in Instants :
            LET after == reducer(state, StopTimerOf(end))
                timer == state.runningTimer[1]
            IN /\ after.runningTimer = NoTimer
               /\ Len(after.entries) = Len(state.entries) + 1
               /\ \E i \in DOMAIN after.entries :
                     /\ RemoveAt(after.entries, i) = state.entries
                     /\ after.entries[i].id \notin Ids(state.entries)
                     /\ after.entries[i].start = timer.start
                     /\ after.entries[i].end = end
                     /\ after.entries[i].durationMs =
                            (IF end >= timer.start THEN end - timer.start ELSE 0)
               /\ after.clients = state.clients
               /\ after.projects = state.projects
               /\ after.invoices = state.invoices

(* A timer started late is running beside an earlier entry: stopping it at *)
(* an earlier instant is the clamped case.                                 *)
C2_Witness ==
    /\ state.runningTimer # NoTimer
    /\ state.entries # << >>
    /\ state.invoices # << >>
    /\ \E end \in Instants : end < state.runningTimer[1].start

(* C3: every entry's clientId names a stored client and its projectId a    *)
(* stored project, or is the sentinel of a timer started with none chosen. *)
C3_NoDanglingEntry ==
    \A e \in Range(state.entries) :
        /\ e.clientId \in Ids(state.clients) \cup {"unassigned_client"}
        /\ e.projectId \in Ids(state.projects) \cup {"unassigned_project"}

(* C4: whatever the stored snapshot, the state loadState builds from it    *)
(* has no active timer.                                                    *)
C4_LoadClearsTimer == loadState(storage).runningTimer = NoTimer

(* C8: the store holds no timer or exactly one, in every reachable state   *)
(* and after any timer transition applied to it.                           *)
C8_AtMostOneTimer ==
    /\ Len(state.runningTimer) <= 1
    /\ \A p \in TimerPayloads : Len(reducer(state, StartTimerOf(p)).runningTimer) <= 1
    /\ \A end \in Instants : Len(reducer(state, StopTimerOf(end)).runningTimer) <= 1
    /\ Len(reducer(state, ResetTimerOf).runningTimer) <= 1

(* A timer runs after an earlier one was stopped and saved.                *)
C8_Witness == state.runningTimer # NoTimer /\ state.entries # << >>

(* C9: RESET_TIMER leaves no active timer, whether or not one was running, *)
(* and leaves the entries, clients, projects and invoices as they were.    *)
C9_ResetTimerFrame ==
    LET after == reducer(state, ResetTimerOf)
    IN /\ after.runningTimer = NoTimer
       /\ after.entries = state.entries
       /\ after.clients = state.clients
       /\ after.projects = state.projects
       /\ after.invoices = state.invoices

(* Resetting would discard a running timer while entries are stored; the   *)
(* handler has run when no timer is left beside them.                      *)
C9_WitnessRunning ==
    /\ state.runningTimer # NoTimer
    /\ state.entries # << >>
    /\ state.invoices # << >>


----------------------------------------------------------------------------
(* Position of an element in a sequence without repetitions.               *)
Pos(seq, x) == CHOOSE i \in DOMAIN seq : seq[i] = x

(* after is before with exactly the elements satisfying Gone taken out:    *)
(* the others are all there, once, with their values, in the same order.   *)
RemovesExactly(before, after, Gone(_)) ==
    /\ Range(after) = { x \in Range(before) : ~Gone(x) }
    /\ Cardinality(Range(after)) = Len(after)
    /\ \A i, j \in DOMAIN after : i < j => Pos(before, after[i]) < Pos(before, after[j])

DeleteClientOf(id) == [ type |-> "DELETE_CLIENT", payload |-> [ id |-> id ] ]
DeleteProjectOf(id) == [ type |-> "DELETE_PROJECT", payload |-> [ id |-> id ] ]

(* C5: the invoice lines the preview shows and createInvoice stores equal  *)
(* the lines computed afresh from the current clients, projects and        *)
(* entries -- and with them the subtotal, tax and total.                   *)
C5_InvoiceLinesFresh ==
    LET fresh == computeInvoiceLines(state, invoiceClient)
    IN /\ invoiceLines = fresh
       /\ invoiceSubtotalOf(invoiceLines) = invoiceSubtotalOf(fresh)
       /\ invoiceTotalOf(invoiceSubtotalOf(invoiceLines),
                         invoiceTaxOf(invoiceSubtotalOf(invoiceLines), taxRate))
          = invoiceTotalOf(invoiceSubtotalOf(fresh),
                           invoiceTaxOf(invoiceSubtotalOf(fresh), taxRate))

(* C6: DELETE_CLIENT of C, for every stored client C and for an id not in   *)
(* the store, takes out exactly the client C, the projects of C and the    *)
(* entries of C; the other clients, projects and entries keep value and    *)
(* order; invoices and the running timer are unchanged.                    *)
C6_DeleteClientFrame ==
    \A C \in Ids(state.clients) \cup { "client_0" } :
        LET after == reducer(state, DeleteClientOf(C))
        IN /\ RemovesExactly(state.clients, after.clients, LAMBDA c : c.id = C)
           /\ RemovesExactly(state.projects, after.projects, LAMBDA p : p.clientId = C)
           /\ RemovesExactly(state.entries, after.entries, LAMBDA e : e.clientId = C)
           /\ after.invoices = state.invoices
           /\ after.runningTimer = state.runningTimer

(* A client has been deleted while a timer was running for it; two clients *)
(* with their projects and entries are left, one of them with an entry for *)
(* a project it does not own, and there is an invoice.                     *)
C6_Witness ==
    /\ Len(state.clients) = MaxStored - 1
    /\ Len(state.projects) = MaxStored - 1
    /\ Len(state.entries) >= 2
    /\ \E e \in Range(state.entries) : e.clientId = "unassigned_client"
    /\ state.runningTimer # NoTimer
    /\ IsSet(state.runningTimer[1].clientId)
    /\ state.runningTimer[1].clientId \notin Ids(state.clients)
    /\ state.invoices # << >>

(* C7: DELETE_PROJECT of P, for every stored project P and for an id not   *)
(* in the store, takes out exactly the project P and the entries of P; the *)
(* clients, the other projects and entries, the invoices and the running   *)
(* timer are unchanged.                                                    *)
C7_DeleteProjectFrame ==
    \A P \in Ids(state.projects) \cup { "project_0" } :
        LET after == reducer(state, DeleteProjectOf(P))
        IN /\ RemovesExactly(state.projects, after.projects, LAMBDA p : p.id = P)
           /\ RemovesExactly(state.entries, after.entries, LAMBDA e : e.projectId = P)
           /\ after.clients = state.clients
           /\ after.invoices = state.invoices
           /\ after.runningTimer = state.runningTimer

(* A project has been deleted while a timer was running on it; its client  *)
(* is still stored, and so are other projects and entries.                 *)
C7_Witness ==
    /\ Len(state.clients) = MaxStored
    /\ Len(state.projects) = MaxStored - 1
    /\ Len(state.entries) >= 2
    /\ state.runningTimer # NoTimer
    /\ IsSet(state.runningTimer[1].projectId)
    /\ state.runningTimer[1].projectId \notin Ids(state.projects)
    /\ state.runningTimer[1].clientId \in Ids(state.clients)
    /\ state.invoices # << >>

(* C10: every stored entry has a duration of at least zero.                *)
C10_DurationNonNegative == \A e \in Range(state.entries) : e.durationMs >= 0

(* An entry that ends before it starts is stored with a duration of zero.  *)
C10_Witness ==
    \E e \in Range(state.entries) : e.end < e.start /\ e.durationMs = 0

(* C11: every stored entry has durationMs = max(0, end - start) for the    *)
(* start and end stored with it, after any sequence of timer stops,        *)
(* manual adds and edits.                                                  *)
C11_DurationDerived ==
    \A e \in Range(state.entries) :
        e.durationMs = IF e.end > e.start THEN e.end - e.start ELSE 0

(* C12: for every project id and client id, stored or not, rateFor gives   *)
(* the rate of the project when the project is stored with a rate that is  *)
(* defined and not zero, otherwise the rate of the client when the client  *)
(* is stored with a rate, otherwise 0.                                     *)
C12_EffectiveRate ==
    \A projectId \in ProjectIds \cup { Undefined, "unassigned_project" },
       clientId \in ClientIds \cup { Undefined, "unassigned_client" } :
        LET projectRates == { x.rate : x \in { y \in Range(state.projects) : y.id = projectId } }
                            \ { NoRate, 0 }
            clientRates == { x.rate : x \in { y \in Range(state.clients) : y.id = clientId } }
                           \ { NoRate }
        IN rateFor(state, projectId, clientId) =
              IF projectRates # {} THEN CHOOSE r \in projectRates : TRUE
              ELSE IF clientRates # {} THEN CHOOSE r \in clientRates : TRUE
              ELSE 0

(* A client with rate 50 has a project with rate 75, which resolves to 75, *)
(* and a project without a rate, which resolves to 50.                     *)
C12_Witness ==
    \E c \in Range(state.clients) :
        /\ c.rate = 5000
        /\ \E p, q \in Range(state.projects) :
              /\ p.clientId = c.id /\ p.rate = 7500
              /\ q.clientId = c.id /\ q.rate = NoRate
              /\ rateFor(state, p.id, c.id) = 7500
              /\ rateFor(state, q.id, c.id) = 5000

(* C17: an entry passes the date-range filter of the reports tab, and that *)
(* of the invoice form, exactly when its start is at or after midnight of  *)
(* the first day and its end (its start, when it has no end) is at or      *)
(* before the last millisecond of the last day; an empty date input        *)
(* excludes nothing.                                                       *)
C17_DateRangeFilter ==
    \A e \in Range(state.entries) :
        LET last == IF "end" \in DOMAIN e THEN e.end ELSE e.start
            Included(from, to) ==
                /\ from # NoDate => e.start >= from * 86400000
                /\ to # NoDate => last <= to * 86400000 + 86399999
        IN /\ e \in Range(filteredEntriesOf(state, fromDate, toDate))
                <=> Included(fromDate, toDate)
           /\ (IsSet(invoiceClient) /\ e.clientId = invoiceClient /\ e.billable)
                => (e \in Range(invoiceEntriesOf(state, invoiceClient))
                        <=> Included(invoiceFrom, invoiceTo))

(* Both ranges are set, and the stored entry starts at midnight of the     *)
(* first day and ends at the last millisecond of the last day: it passes   *)
(* both filters.                                                           *)
C17_Witness ==
    /\ fromDate # NoDate /\ toDate # NoDate /\ invoiceFrom # NoDate /\ invoiceTo # NoDate
    /\ IsSet(invoiceClient)
    /\ \E e \in Range(state.entries) :
          /\ e.start = DateTime(fromDate) /\ e.start = DateTime(invoiceFrom)
          /\ "end" \in DOMAIN e
          /\ e.end = DateTime(toDate) + DayMs - 1 /\ e.end = DateTime(invoiceTo) + DayMs - 1
          /\ e \in Range(filteredEntriesOf(state, fromDate, toDate))
          /\ e \in Range(invoiceEntriesOf(state, invoiceClient))

----------------------------------------------------------------------------
(* q is num / den rounded to the nearest integer, halves upwards.          *)
IsNearest(q, num, den) == 2 * den * q - den <= 2 * num /\ 2 * num < 2 * den * q + den

RECURSIVE SumOfAmounts(_)
SumOfAmounts(lines) ==
    IF lines = << >> THEN 0 ELSE Head(lines).amount + SumOfAmounts(Tail(lines))

RECURSIVE SumOfDurations(_)
SumOfDurations(es) ==
    IF es = {} THEN 0
    ELSE LET e == CHOOSE x \in es : TRUE IN e.durationMs + SumOfDurations(es \ {e})

(* The hours of the entries of a set, each in hundredths as the line loop  *)
(* adds them up.                                                           *)
RECURSIVE SumOfHours(_)
SumOfHours(es) ==
    IF es = {} THEN 0
    ELSE LET e == CHOOSE x \in es : TRUE
         IN (CHOOSE q \in 0..(e.durationMs \div 36000 + 1) : IsNearest(q, e.durationMs, 36000))
            + SumOfHours(es \ {e})

(* The entries an invoice for the chosen client and range is to be built   *)
(* from: of that client, billable, and within the range.                   *)
BillableInRange ==
    { e \in Range(state.entries) :
        /\ IsSet(invoiceClient) /\ e.clientId = invoiceClient /\ e.billable
        /\ invoiceFrom # NoDate => e.start >= invoiceFrom * 86400000
        /\ invoiceTo # NoDate => e.end <= invoiceTo * 86400000 + 86399999 }

(* C13: every stored invoice has total = subtotal + tax, in cents, and tax *)
(* = subtotal * taxRate / 100 rounded to the cent.                         *)
C13_InvoiceTotals ==
    \A inv \in Range(state.invoices) :
        /\ inv.total = inv.subtotal + inv.tax
        /\ IsNearest(inv.tax, inv.subtotal * inv.taxRate, 100)

(* An invoice is stored whose tax is rounded up to the cent.               *)
C13_Witness ==
    \E inv \in Range(state.invoices) :
        /\ inv.taxRate # 0 /\ inv.subtotal # 0
        /\ (inv.subtotal * inv.taxRate) % 100 > 50
        /\ inv.total > inv.subtotal

(* C14: every stored invoice has a subtotal that is the sum of the amounts *)
(* of its lines, and every line has amount = hours * rate rounded to the   *)
(* cent, for the hours and the rate of that line.                          *)
C14_InvoiceLinesConsistent ==
    \A inv \in Range(state.invoices) :
        /\ inv.subtotal = SumOfAmounts(inv.lineItems)
        /\ \A l \in Range(inv.lineItems) : IsNearest(l.amount, l.hours * l.rate, 100)

(* An invoice with two lines is stored, one of them with an amount rounded *)
(* up to the cent.                                                         *)
C14_Witness ==
    \E inv \in Range(state.invoices) :
        /\ Len(inv.lineItems) = 2
        /\ \E l \in Range(inv.lineItems) : (l.hours * l.rate) % 100 > 50
        /\ \A l \in Range(inv.lineItems) : l.amount > 0

(* C15: the hours of every invoice line are the summed duration of the     *)
(* entries of its group, divided by 3600000 and rounded to two decimals    *)
(* once.                                                                   *)
C15_HoursRoundedPerGroup ==
    \A l \in Range(invoiceLines) :
        IsNearest(l.hours,
                  SumOfDurations({ e \in BillableInRange : e.projectId = l.projectId }),
                  36000)

(* C16: the invoice lines are built from exactly the entries of the chosen *)
(* client that are billable and within the range: one line for each        *)
(* project among them, none for another project, and the hours of a line   *)
(* come from the entries of its project among them only.                   *)
C16_InvoiceUsesBillableInRange ==
    /\ { l.projectId : l \in Range(invoiceLines) } = { e.projectId : e \in BillableInRange }
    /\ Len(invoiceLines) = Cardinality({ e.projectId : e \in BillableInRange })
    /\ \A l \in Range(invoiceLines) :
          LET group == { e \in BillableInRange : e.projectId = l.projectId }
          IN l.hours > 0 /\ l.hours = SumOfHours(group)

(* A client and a range are chosen; one stored entry is used and gives the *)
(* only line, the other one, for another project, is left out.             *)
C16_Witness ==
    /\ IsSet(invoiceClient) /\ invoiceFrom # NoDate /\ invoiceTo # NoDate
    /\ Len(invoiceLines) = 1
    /\ \E e1 \in BillableInRange :
       \E e2 \in Range(state.entries) \ BillableInRange :
          e2.projectId # e1.projectId

----------------------------------------------------------------------------
(* Payloads of the store transitions, for the stored identifiers and for   *)
(* one that is not stored.                                                 *)
ClientPayloads ==
    [ id : Ids(state.clients) \cup { "client_0" }, name : { "Acme", "Beta" },
      rate : ClientRateInputs, active : BOOLEAN ]

ProjectPayloads ==
    [ id : Ids(state.projects) \cup { "project_0" }, name : { "Site" },
      clientId : ClientIds, rate : { NoRate, 7500 }, archived : BOOLEAN ]

EntryPayloads ==
    [ id : Ids(state.entries) \cup { "entry_0" }, clientId : { "client_1" },
      projectId : ProjectIds, start : { 0 }, end : Instants, durationMs : { 0, 60000 },
      notes : { "" }, billable : BOOLEAN ]

InvoicePayloads ==
    { [ SeedInvoice(1) EXCEPT !.id = id, !.status = st, !.total = 0 ] :
        id \in Ids(state.invoices) \cup { "inv_0" }, st \in { "sent", "paid" } }

ActionsOf(types, payloads) == { [ type |-> ty, payload |-> p ] : ty \in types, p \in payloads }

(* The client, project, entry and timer transitions.                       *)
NonInvoiceActions ==
    ActionsOf({ "ADD_CLIENT", "UPDATE_CLIENT", "DELETE_CLIENT" }, ClientPayloads)
    \cup ActionsOf({ "ADD_PROJECT", "UPDATE_PROJECT", "DELETE_PROJECT" }, ProjectPayloads)
    \cup ActionsOf({ "ADD_ENTRY", "UPDATE_ENTRY", "DELETE_ENTRY" }, EntryPayloads)
    \cup { StartTimerOf(p) : p \in TimerPayloads }
    \cup { StopTimerOf(end) : end \in Instants }
    \cup { ResetTimerOf }

(* C18: no client, project, entry or timer transition changes the stored   *)
(* invoices: the collection and every invoice in it stay as they are.      *)
C18_InvoicesImmutable ==
    \A a \in NonInvoiceActions : reducer(state, a).invoices = state.invoices

(* An invoice with a line is stored; its client and the project of the     *)
(* line have since been deleted, and an entry has been timed.              *)
C18_Witness ==
    /\ state.entries # << >>
    /\ \E inv \in Range(state.invoices) :
          /\ inv.lineItems # << >>
          /\ inv.subtotal > 0
          /\ inv.clientId \notin Ids(state.clients)
          /\ \A l \in Range(inv.lineItems) : l.projectId \notin Ids(state.projects)

(* after is before with the element of the payload's identifier replaced   *)
(* by the payload, where it was; every other element is as it was.         *)
ReplacesExactly(before, after, payload) ==
    /\ Len(after) = Len(before)
    /\ \A i \in DOMAIN before :
          /\ before[i].id = payload.id => after[i] = payload
          /\ before[i].id # payload.id => after[i] = before[i]

(* C19: an update replaces exactly the element with the identifier of the  *)
(* payload, in its place, and changes nothing else; with no such element   *)
(* the state is unchanged.                                                 *)
C19_UpdateReplacesById ==
    /\ \A p \in ClientPayloads :
          LET after == reducer(state, [ type |-> "UPDATE_CLIENT", payload |-> p ])
          IN /\ ReplacesExactly(state.clients, after.clients, p)
             /\ after = [ state EXCEPT !.clients = after.clients ]
             /\ p.id \notin Ids(state.clients) => after = state
    /\ \A p \in ProjectPayloads :
          LET after == reducer(state, [ type |-> "UPDATE_PROJECT", payload |-> p ])
          IN /\ ReplacesExactly(state.projects, after.projects, p)
             /\ after = [ state EXCEPT !.projects = after.projects ]
             /\ p.id \notin Ids(state.projects) => after = state
    /\ \A p \in EntryPayloads :
          LET after == reducer(state, [ type |-> "UPDATE_ENTRY", payload |-> p ])
          IN /\ ReplacesExactly(state.entries, after.entries, p)
             /\ after = [ state EXCEPT !.entries = after.entries ]
             /\ p.id \notin Ids(state.entries) => after = state
    /\ \A p \in InvoicePayloads :
          LET after == reducer(state, [ type |-> "UPDATE_INVOICE", payload |-> p ])
          IN /\ ReplacesExactly(state.invoices, after.invoices, p)
             /\ after = [ state EXCEPT !.invoices = after.invoices ]
             /\ p.id \notin Ids(state.invoices) => after = state

(* The older client and the older project have been edited and are still   *)
(* second; the newer ones, both entries and both invoices are untouched.   *)
C19_Witness ==
    /\ Len(state.clients) = 2 /\ Len(state.projects) = 2
    /\ state.clients[1] = SeedClient(2)
    /\ state.clients[2].id = "client_1" /\ state.clients[2] # SeedClient(1)
    /\ state.projects[1] = SeedProject(2, 2)
    /\ state.projects[2].id = "project_1" /\ state.projects[2] # SeedProject(1, 2)
    /\ Len(state.entries) = 2 /\ Len(state.invoices) = 2

(* The number of the uid() call that made an identifier.                   *)
CreatedNth(id) ==
    CHOOSE n \in 0..9 : id \in { uid(prefix, n) : prefix \in { "client", "project", "entry", "inv" } }

NewestFirstById(seq) ==
    \A i, j \in DOMAIN seq : i < j => CreatedNth(seq[i].id) > CreatedNth(seq[j].id)

(* C20: every add puts the new element at the head of its collection and   *)
(* keeps the elements before it in their order, and so does the entry made *)
(* by STOP_TIMER; every collection is ordered newest first.                *)
C20_AddsPrepend ==
    /\ \A p \in ClientPayloads :
          reducer(state, [ type |-> "ADD_CLIENT", payload |-> p ]).clients
             = << p >> \o state.clients
    /\ \A p \in ProjectPayloads :
          reducer(state, [ type |-> "ADD_PROJECT", payload |-> p ]).projects
             = << p >> \o state.projects
    /\ \A p \in EntryPayloads :
          reducer(state, [ type |-> "ADD_ENTRY", payload |-> p ]).entries
             = << p >> \o state.entries
    /\ \A p \in InvoicePayloads :
          reducer(state, [ type |-> "ADD_INVOICE", payload |-> p ]).invoices
             = << p >> \o state.invoices
    /\ state.runningTimer # NoTimer =>
          \A end \in Instants :
              LET after == reducer(state, StopTimerOf(end))
              IN /\ after.entries # << >>
                 /\ Head(after.entries).id = uid("entry", uidCount.entry + 1)
                 /\ Head(after.entries).start = state.runningTimer[1].start
                 /\ Tail(after.entries) = state.entries
    /\ NewestFirstById(state.clients)
    /\ NewestFirstById(state.projects)
    /\ NewestFirstById(state.entries)
    /\ NewestFirstById(state.invoices)

(* A client, a project and a timed entry have been added before the stored *)
(* ones, and an invoice has been created.                                  *)
C20_Witness ==
    /\ Len(state.clients) = 2 /\ state.clients[1].id = "client_2"
    /\ Len(state.projects) = 2 /\ state.projects[1].id = "project_2"
    /\ Len(state.entries) = 2 /\ state.entries[1].id = "entry_2"
    /\ state.invoices # << >>

----------------------------------------------------------------------------
(* n written in four digits.                                               *)
SequencePart(n) ==
    IF n < 10 THEN "000" \o ToString(n)
    ELSE IF n < 100 THEN "00" \o ToString(n)
    ELSE IF n < 1000 THEN "0" \o ToString(n)
    ELSE ToString(n)

(* C21: a step that adds an invoice adds exactly one, in status draft,     *)
(* numbered with the count of the invoices stored before it plus one, in   *)
(* four digits, for the chosen client and tax rate, with the lines built   *)
(* for the client's billable entries in the range, their amounts summed as *)
(* subtotal, the tax rounded to the cent, and the total their sum.         *)
C21_CreateInvoice ==
    [][ Len(state'.invoices) > Len(state.invoices) =>
          \E i \in DOMAIN state'.invoices :
             LET inv == state'.invoices[i]
             IN /\ RemoveAt(state'.invoices, i) = state.invoices
                /\ inv.id \notin Ids(state.invoices)
                /\ inv.status = "draft"
                /\ inv.number = "INV-1970-" \o SequencePart(Len(state.invoices) + 1)
                /\ IsSet(invoiceClient) /\ inv.clientId = invoiceClient
                /\ inv.taxRate = taxRate
                /\ inv.lineItems = invoiceLines
                /\ { l.projectId : l \in Range(inv.lineItems) }
                      = { e.projectId : e \in BillableInRange }
                /\ inv.subtotal = SumOfAmounts(invoiceLines)
                /\ IsNearest(inv.tax, inv.subtotal * taxRate, 100)
                /\ inv.total = inv.subtotal + inv.tax
      ]_vars

(* A second invoice has been created after the first: it is numbered 0002, *)
(* has a line and a tax.                                                   *)
C21_Witness ==
    /\ Len(state.invoices) = 2
    /\ state.invoices[2].number = "INV-1970-0001"
    /\ state.invoices[1].number = "INV-1970-0002"
    /\ state.invoices[1].status = "draft"
    /\ state.invoices[1].lineItems # << >>
    /\ state.invoices[1].tax > 0

(* C22: loadState gives the empty state -- no clients, projects, entries   *)
(* or invoices and no timer -- whenever nothing is stored, the stored text *)
(* is not JSON, or the stored value lacks one of the four collections.     *)
C22_MalformedLoadsEmpty ==
    (storage = NoStorage \/ storage = Malformed \/ ~(Collections \subseteq DOMAIN storage))
        => loadState(storage) = EmptyState

----------------------------------------------------------------------------
RECURSIVE SumOfDur(_)
SumOfDur(results) ==
    IF results = << >> THEN 0 ELSE Head(results).dur + SumOfDur(Tail(results))

(* C24: the aggregates of the reports tab have one result for each client  *)
(* (each project) among the entries in the range, each once, with the      *)
(* summed duration of the entries of that client (project); the results    *)
(* add up to the summed duration of all those entries.                     *)
C24_ReportAggregation ==
    LET es == filteredEntriesOf(state, fromDate, toDate)
        input == Range(es)
        byClient == byClientOf(es)
        byProject == byProjectOf(es)
    IN /\ { r.clientId : r \in Range(byClient) } = { e.clientId : e \in input }
       /\ Len(byClient) = Cardinality({ e.clientId : e \in input })
       /\ \A r \in Range(byClient) :
             r.dur = SumOfDurations({ e \in input : e.clientId = r.clientId })
       /\ SumOfDur(byClient) = SumOfDurations(input)
       /\ { r.projectId : r \in Range(byProject) } = { e.projectId : e \in input }
       /\ Len(byProject) = Cardinality({ e.projectId : e \in input })
       /\ \A r \in Range(byProject) :
             r.dur = SumOfDurations({ e \in input : e.projectId = r.projectId })
       /\ SumOfDur(byProject) = SumOfDurations(input)

(* Of three stored entries one is outside the range; the two inside are    *)
(* for one client and two projects, and both last some minutes.            *)
C24_Witness ==
    LET es == filteredEntriesOf(state, fromDate, toDate)
    IN /\ Len(state.entries) = 3 /\ Len(es) = 2
       /\ es[1].clientId = es[2].clientId
       /\ es[1].projectId # es[2].projectId
       /\ es[1].durationMs > 0 /\ es[2].durationMs > 0
       /\ Len(byClientOf(es)) = 1 /\ Len(byProjectOf(es)) = 2

----------------------------------------------------------------------------
(* A parser of delimited text (RFC 4180): records end at a newline, fields *)
(* at a comma; a field that begins with a double quote runs to the next    *)
(* single double quote, a doubled one inside it standing for one.  mode is *)
(* where the parser is: at the start of a field, inside an unquoted or a   *)
(* quoted field, or after a double quote inside a quoted field.            *)
RECURSIVE ParseFrom(_, _, _, _, _, _)
ParseFrom(text, i, rows, row, field, mode) ==
    IF i > Len(text) THEN Append(rows, Append(row, field))
    ELSE LET c == text[i]
         IN CASE mode = "quoted" /\ c = DoubleQuote ->
                    ParseFrom(text, i + 1, rows, row, field, "quote")
              [] mode = "quoted" /\ c # DoubleQuote ->
                    ParseFrom(text, i + 1, rows, row, Append(field, c), "quoted")
              [] mode = "quote" /\ c = DoubleQuote ->
                    ParseFrom(text, i + 1, rows, row, Append(field, DoubleQuote), "quoted")
              [] mode = "start" /\ c = DoubleQuote ->
                    ParseFrom(text, i + 1, rows, row, field, "quoted")
              [] mode # "quoted" /\ c = "," ->
                    ParseFrom(text, i + 1, rows, Append(row, field), << >>, "start")
              [] mode # "quoted" /\ c = "\n" ->
                    ParseFrom(text, i + 1, Append(rows, Append(row, field)), << >>, << >>, "start")
              [] OTHER ->
                    ParseFrom(text, i + 1, rows, row, Append(field, c), "unquoted")

ParseCSV(text) == ParseFrom(text, 1, << >>, << >>, << >>, "start")

----------------------------------------------------------------------------
BlankNames == { "", " " }

(* C26: Save in the client dialog with an empty or blank name, Save in the *)
(* project dialog with such a name or with no client, Add Entry with no    *)
(* client, no project or no start, and Create Invoice with no client       *)
(* chosen take no step: nothing is dispatched, and the store stays as it   *)
(* is.                                                                     *)
C26_ValidationRejects ==
    /\ \A name \in BlankNames, rate \in ClientRateInputs, active \in BOOLEAN :
          /\ ~ENABLED SaveNewClientWith(name, rate, active)
          /\ \A client \in Range(state.clients) :
                ~ENABLED SaveEditedClientWith(client, name, rate, active)
    /\ \A name \in NameInputs, clientId \in Ids(state.clients) \cup { Undefined },
          rate \in ProjectRateInputs, archived \in BOOLEAN :
          (name \in BlankNames \/ clientId = Undefined) =>
              /\ ~ENABLED SaveNewProjectWith(name, clientId, rate, archived)
              /\ \A project \in Range(state.projects) :
                    ~ENABLED SaveEditedProjectWith(project, name, clientId, rate, archived)
    /\ \A clientId \in Ids(state.clients) \cup { Undefined },
          projectId \in Ids(state.projects) \cup { Undefined },
          start \in DateTimeInputs, end \in DateTimeInputs,
          n \in NotesInputs, b \in BOOLEAN :
          (clientId = Undefined \/ projectId = Undefined \/ start = NoInput) =>
              ~ENABLED SaveNewEntryWith(clientId, projectId, start, end, n, b)
    /\ ~ENABLED createInvoiceFor(Undefined)
    /\ invoiceClient = Undefined => ~ENABLED createInvoice

(* A client, a project and an entry are stored, so each dialog has what it *)
(* needs to save; no client is chosen in the invoice form, and a well      *)
(* filled client dialog would save.                                        *)
C26_Witness ==
    /\ state.clients # << >> /\ state.projects # << >> /\ state.entries # << >>
    /\ invoiceClient = Undefined
    /\ \A client \in Range(state.clients) : ENABLED SaveEditedClientWith(client, "Acme", 0, TRUE)

----------------------------------------------------------------------------
IdsOf(seq) == [ i \in DOMAIN seq |-> seq[i].id ]

UniqueIds(seq) == \A i, j \in DOMAIN seq : seq[i].id = seq[j].id => i = j

(* a is b with some of its elements left out.                              *)
RECURSIVE IsSubSeq(_, _)
IsSubSeq(a, b) ==
    IF a = << >> THEN TRUE
    ELSE IF b = << >> THEN FALSE
    ELSE IF Head(a) = Head(b) THEN IsSubSeq(Tail(a), Tail(b))
    ELSE IsSubSeq(a, Tail(b))

(* The identifiers after are those before, with some taken out or some     *)
(* put in: none is exchanged for another.                                   *)
KeepsIds(before, after) ==
    IsSubSeq(IdsOf(after), IdsOf(before)) \/ IsSubSeq(IdsOf(before), IdsOf(after))

(* Every transition of the store, with a payload for each stored           *)
(* identifier and for one that is not stored.                              *)
ActionsById ==
    ActionsOf({ "ADD_CLIENT", "UPDATE_CLIENT", "DELETE_CLIENT" },
              { p \in ClientPayloads : p.name = "Beta" /\ p.rate = 0 /\ p.active })
    \cup ActionsOf({ "ADD_PROJECT", "UPDATE_PROJECT", "DELETE_PROJECT" },
                   { p \in ProjectPayloads : p.clientId = "client_1" /\ p.rate = NoRate
                                             /\ p.archived })
    \cup ActionsOf({ "ADD_ENTRY", "UPDATE_ENTRY", "DELETE_ENTRY" },
                   { p \in EntryPayloads : p.projectId = "project_1" /\ p.end = 0
                                           /\ p.durationMs = 0 /\ ~p.billable })
    \cup ActionsOf({ "ADD_INVOICE", "UPDATE_INVOICE", "DELETE_INVOICE" },
                   { p \in InvoicePayloads : p.status = "sent" })
    \cup { StartTimerOf(p) : p \in { q \in TimerPayloads : q.clientId = Undefined
                                       /\ q.projectId = Undefined /\ q.notes = "" /\ q.billable } }
    \cup { StopTimerOf(end) : end \in Instants }
    \cup { ResetTimerOf }

----------------------------------------------------------------------------
(* The range of the invoice form contains the hour of the second day.      *)
RangeContainsTheHour ==
    /\ invoiceFrom = NoDate \/ invoiceFrom * 86400000 <= 86400000
    /\ invoiceTo = NoDate \/ 86400000 + 3600000 <= invoiceTo * 86400000 + 86399999

(* C28: with Acme chosen, a range that contains the entry and a tax rate   *)
(* of 10, the invoice has one line, of 1 hour at 100 making 100, a         *)
(* subtotal of 100, a tax of 10 and a total of 110 -- in the preview and   *)
(* in the invoice createInvoice would store.                               *)
C28_AcmeInvoice ==
    (invoiceClient = "client_1" /\ taxRate = 10 /\ RangeContainsTheHour) =>
        LET subtotal == invoiceSubtotalOf(invoiceLines)
            tax == invoiceTaxOf(subtotal, taxRate)
            total == invoiceTotalOf(subtotal, tax)
            inv == Head(reducer(state, [ type |-> "ADD_INVOICE",
                                         payload |-> InvoicePayload(state, "inv_0", invoiceClient,
                                                                    invoiceLines, taxRate) ]).invoices)
        IN /\ Len(invoiceLines) = 1
           /\ invoiceLines[1].hours = 100
           /\ invoiceLines[1].rate = 10000
           /\ invoiceLines[1].amount = 10000
           /\ subtotal = 10000 /\ tax = 1000 /\ total = 11000
           /\ inv.lineItems = invoiceLines
           /\ inv.subtotal = 10000 /\ inv.tax = 1000 /\ inv.total = 11000

(* Acme, the second day as the whole range and a tax rate of 10 are        *)
(* chosen, and the invoice of 110 has been created.                        *)
C28_Witness ==
    /\ invoiceClient = "client_1" /\ taxRate = 10
    /\ invoiceFrom = 1 /\ invoiceTo = 1
    /\ \E c \in Range(state.clients) : c.id = invoiceClient /\ c.name = "Acme" /\ c.rate = 10000
    /\ \E p \in Range(state.projects) : p.name = "Site" /\ p.rate = NoRate
    /\ \E inv \in Range(state.invoices) :
          /\ Len(inv.lineItems) = 1 /\ inv.subtotal = 10000
          /\ inv.tax = 1000 /\ inv.total = 11000

----------------------------------------------------------------------------
(* Identifiers no stored element of the collection has: others that uid()  *)
(* gives, one it never gave, and the sentinel of the collection.           *)
AbsentClientIds == (ClientIds \cup { "client_0", "unassigned_client" }) \ Ids(state.clients)
AbsentProjectIds == (ProjectIds \cup { "project_0", "unassigned_project" }) \ Ids(state.projects)
AbsentEntryIds == (EntryIds \cup { "entry_0" }) \ Ids(state.entries)
AbsentInvoiceIds == (InvoiceIds \cup { "inv_0" }) \ Ids(state.invoices)

DeleteEntryOf(id) == [ type |-> "DELETE_ENTRY", payload |-> [ id |-> id ] ]
DeleteInvoiceOf(id) == [ type |-> "DELETE_INVOICE", payload |-> [ id |-> id ] ]
UnrecognizedAction == [ type |-> "UNRECOGNIZED", payload |-> [ id |-> "client_1" ] ]

(* C29, as stated: STOP_TIMER with no timer active, a delete of a client,  *)
(* project, entry or invoice with an identifier that is not stored, and    *)
(* an unrecognized action each give a state equal to the state they are    *)
(* applied to, in every field.                                             *)
C29_AbsentTargetsNoOp ==
    /\ state.runningTimer = NoTimer =>
          \A end \in Instants : reducer(state, StopTimerOf(end)) = state
    /\ \A id \in AbsentClientIds : reducer(state, DeleteClientOf(id)) = state
    /\ \A id \in AbsentProjectIds : reducer(state, DeleteProjectOf(id)) = state
    /\ \A id \in AbsentEntryIds : reducer(state, DeleteEntryOf(id)) = state
    /\ \A id \in AbsentInvoiceIds : reducer(state, DeleteInvoiceOf(id)) = state
    /\ reducer(state, UnrecognizedAction) = state

(* C29, amended: STOP_TIMER with no timer active, a delete of an entry or  *)
(* an invoice with an identifier that is not stored, and an unrecognized   *)
(* action give a state equal to the state they are applied to.  A delete   *)
(* of a client (project) with an identifier that is not stored leaves the  *)
(* clients, the invoices and the timer as they are and takes out exactly   *)
(* the projects and entries (the entries) that refer to the identifier: it *)
(* gives an equal state when none refers to it.                            *)
C29_AbsentTargetsCascadeOnly ==
    /\ state.runningTimer = NoTimer =>
          \A end \in Instants : reducer(state, StopTimerOf(end)) = state
    /\ \A id \in AbsentClientIds :
          LET after == reducer(state, DeleteClientOf(id))
          IN /\ after.clients = state.clients
             /\ after.invoices = state.invoices
             /\ after.runningTimer = state.runningTimer
             /\ RemovesExactly(state.projects, after.projects, LAMBDA p : p.clientId = id)
             /\ RemovesExactly(state.entries, after.entries, LAMBDA e : e.clientId = id)
             /\ (\A x \in Range(state.projects) \cup Range(state.entries) : x.clientId # id)
                   => after = state
    /\ \A id \in AbsentProjectIds :
          LET after == reducer(state, DeleteProjectOf(id))
          IN /\ after.clients = state.clients
             /\ after.projects = state.projects
             /\ after.invoices = state.invoices
             /\ after.runningTimer = state.runningTimer
             /\ RemovesExactly(state.entries, after.entries, LAMBDA e : e.projectId = id)
             /\ (\A e \in Range(state.entries) : e.projectId # id) => after = state
    /\ \A id \in AbsentEntryIds : reducer(state, DeleteEntryOf(id)) = state
    /\ \A id \in AbsentInvoiceIds : reducer(state, DeleteInvoiceOf(id)) = state
    /\ reducer(state, UnrecognizedAction) = state

(* No timer is active; a client was deleted while a timer ran for it, and  *)
(* the entry of that timer is stored beside an invoice: the client and the *)
(* project of the entry are absent targets that an entry refers to.        *)
C29_Witness ==
    /\ state.runningTimer = NoTimer
    /\ state.invoices # << >>
    /\ \E e \in Range(state.entries) :
          /\ e.clientId \in AbsentClientIds /\ e.clientId # "unassigned_client"
          /\ e.projectId \in AbsentProjectIds /\ e.projectId # "unassigned_project"

----------------------------------------------------------------------------
(* C30: with no timer active, START_TIMER makes its payload the active     *)
(* timer, field for field, and leaves the clients, projects, entries and   *)
(* invoices as they are; the payload the Start button dispatches has the   *)
(* client, the project, the notes and the billable flag of the form and    *)
(* the instant of the clock as start.                                      *)
C30_StartTimerInstalls ==
    state.runningTimer = NoTimer =>
        /\ \A p \in TimerPayloads :
              LET after == reducer(state, StartTimerOf(p))
              IN /\ after.runningTimer = << p >>
                 /\ after.clients = state.clients
                 /\ after.projects = state.projects
                 /\ after.entries = state.entries
                 /\ after.invoices = state.invoices
        /\ \A now \in Instants :
              LET after == reducer(state, StartTimerOf(StartPayload(now)))
              IN /\ Len(after.runningTimer) = 1
                 /\ after.runningTimer[1].clientId = selClient
                 /\ after.runningTimer[1].projectId = selProject
                 /\ after.runningTimer[1].notes = notes
                 /\ after.runningTimer[1].billable = billable
                 /\ after.runningTimer[1].start = now
                 /\ [ after EXCEPT !.runningTimer = NoTimer ] = state
        /\ ENABLED startTimer

(* A timer has been started, after the first instant, from a form with a   *)
(* client, a project, notes and the billable flag off, beside stored       *)
(* entries and an invoice.                                                 *)
C30_Witness ==
    /\ state.runningTimer # NoTimer
    /\ IsSet(selClient) /\ state.runningTimer[1].clientId = selClient
    /\ IsSet(selProject) /\ state.runningTimer[1].projectId = selProject
    /\ notes = "n" /\ state.runningTimer[1].notes = "n"
    /\ ~billable /\ ~state.runningTimer[1].billable
    /\ state.runningTimer[1].start > 0
    /\ state.entries # << >> /\ state.invoices # << >>

----------------------------------------------------------------------------
(* C31: the entry STOP_TIMER makes has the client and the project of the   *)
(* timer where the timer has them, "unassigned_client" and                 *)
(* "unassigned_project" where it has none, and the notes and the billable  *)
(* flag of the timer.                                                      *)
C31_StopTimerEntryFields ==
    state.runningTimer # NoTimer =>
        \A end \in Instants :
            LET after == reducer(state, StopTimerOf(end))
                timer == state.runningTimer[1]
                entry == after.entries[1]
            IN /\ Len(after.entries) = Len(state.entries) + 1
               /\ entry.clientId = (IF timer.clientId = Undefined
                                    THEN "unassigned_client" ELSE timer.clientId)
               /\ entry.projectId = (IF timer.projectId = Undefined
                                     THEN "unassigned_project" ELSE timer.projectId)
               /\ entry.clientId # Undefined /\ entry.projectId # Undefined
               /\ entry.notes = timer.notes
               /\ entry.billable = timer.billable

(* Two timers have been stopped: one started with a client and no project, *)
(* with notes and the billable flag off, one started with both.            *)
C31_Witness ==
    /\ \E i \in DOMAIN state.entries :
          /\ state.entries[i].clientId \in Ids(state.clients)
          /\ state.entries[i].projectId = "unassigned_project"
          /\ state.entries[i].notes = "n"
          /\ ~state.entries[i].billable
    /\ \E i \in DOMAIN state.entries :
          /\ state.entries[i].clientId \in Ids(state.clients)
          /\ state.entries[i].projectId \in Ids(state.projects)
    /\ state.runningTimer # NoTimer

----------------------------------------------------------------------------
AddInvoiceOf(payload) == [ type |-> "ADD_INVOICE", payload |-> payload ]

(* Two stored invoices carry one number.                                   *)
SameNumberTwice(invoices) ==
    \E i, j \in DOMAIN invoices :
        /\ i # j
        /\ invoices[i].id # invoices[j].id
        /\ invoices[i].number = invoices[j].number

(* C32: the invoice numbers do not stay distinct under deletions.  With    *)
(* two or more invoices stored, none deleted so far, deleting any invoice  *)
(* but the newest and creating one more gives the new invoice the number   *)
(* of the newest stored one: two stored invoices, with different           *)
(* identifiers, carry the same number.                                     *)
C32_NumberingCollides ==
    ( /\ Len(state.invoices) >= 2
      /\ Len(state.invoices) = uidCount.inv
      /\ IsSet(invoiceClient) ) =>
        /\ ~SameNumberTwice(state.invoices)
        /\ \A k \in 2..Len(state.invoices) :
              LET deleted == reducer(state, DeleteInvoiceOf(state.invoices[k].id))
                  created == InvoicePayload(deleted, uid("inv", uidCount.inv + 1),
                                            invoiceClient, invoiceLines, taxRate)
                  after == reducer(deleted, AddInvoiceOf(created))
              IN /\ Len(after.invoices) = Len(state.invoices)
                 /\ after.invoices[1].id = created.id
                 /\ after.invoices[2] = state.invoices[1]
                 /\ after.invoices[1].number = after.invoices[2].number
                 /\ SameNumberTwice(after.invoices)

(* Create, create, delete the first, create: the two stored invoices are   *)
(* the second and the third created, both numbered 0002.                   *)
C32_Witness ==
    /\ uidCount.inv = 3
    /\ Len(state.invoices) = 2
    /\ state.invoices[1].id = uid("inv", 3)
    /\ state.invoices[2].id = uid("inv", 2)
    /\ state.invoices[1].number = "INV-1970-0002"
    /\ state.invoices[2].number = "INV-1970-0002"
    /\ SameNumberTwice(state.invoices)

----------------------------------------------------------------------------
(* status: "draft" | "sent" | "paid" | "overdue"                            *)
InvoiceStatuses == { "draft", "sent", "paid", "overdue" }

(* The steps of the lifecycle: draft to sent, sent to paid or to overdue.  *)
LifecycleSteps == { << "draft", "sent" >>, << "sent", "paid" >>, << "sent", "overdue" >> }

(* A stored invoice with any status, as the payload of UPDATE_INVOICE.     *)
StatusPayloads ==
    { [ inv EXCEPT !.status = st ] : inv \in Range(state.invoices), st \in InvoiceStatuses }

UpdateInvoiceOf(payload) == [ type |-> "UPDATE_INVOICE", payload |-> payload ]

(* C33: a transition leaves the status of every stored invoice as it is or *)
(* moves it one step along the lifecycle -- draft to sent, sent to paid,   *)
(* sent to overdue -- never backwards and never past sent.                 *)
C33_StatusFollowsLifecycle ==
    \A p \in StatusPayloads :
        LET after == reducer(state, UpdateInvoiceOf(p))
        IN \A i \in DOMAIN state.invoices :
              \/ after.invoices[i].status = state.invoices[i].status
              \/ << state.invoices[i].status, after.invoices[i].status >> \in LifecycleSteps

----------------------------------------------------------------------------
(* The window holds the tick interval, under the handle in tickRef, while  *)
(* a timer is active, and no interval otherwise.                           *)
TickScheduled ==
    /\ Cardinality(intervals) <= 1
    /\ (intervals # {}) <=> (state.runningTimer # NoTimer)
    /\ intervals = { tickRef } \ { NoInterval }

(* C34: in every state, with the effects of the step that led to it run,   *)
(* a tick interval exists if and only if a timer is active, and there is   *)
(* never more than one; a step in which the tick callback runs changes     *)
(* neither the state of the store nor what is persisted.                   *)
C34_TickScheduling ==
    /\ []TickScheduled
    /\ [][tick' > tick => (state' = state /\ storage' = storage)]_vars

(* A timer was stopped into an entry, another was started, and the         *)
(* interval of the second has ticked: one interval is live.                *)
C34_Witness ==
    /\ state.entries # << >>
    /\ state.runningTimer # NoTimer
    /\ tick = MaxForceTick
    /\ intervals = { tickRef }

----------------------------------------------------------------------------
(* The default rate of a client, 0 where the client is not stored or has   *)
(* none.                                                                   *)
ClientRateOrZero(clientId) ==
    IF \E c \in Range(state.clients) : c.id = clientId /\ c.rate # NoRate
    THEN (CHOOSE c \in Range(state.clients) : c.id = clientId).rate
    ELSE 0

(* C35: for an entry whose client (project) is not stored, the export row  *)
(* has "Unassigned" as client (project); with the project not stored the   *)
(* rate is the default rate of the client, and 0 where the client is not   *)
(* stored or has none; the by-client and by-project aggregates have a      *)
(* result for its identifiers that sums the durations of the entries with  *)
(* them; and an invoice line for a project that is not stored is described *)
(* "Work on Unassigned" at the default rate of the invoice's client.       *)
C35_DanglingDegrades ==
    /\ \A e \in Range(state.entries) :
          LET noClient == e.clientId \notin Ids(state.clients)
              noProject == e.projectId \notin Ids(state.projects)
              row == ExportRow(state, e)
              es == filteredEntriesOf(state, fromDate, toDate)
          IN /\ noClient => row[2] = << "Unassigned" >>
             /\ noProject => /\ row[3] = << "Unassigned" >>
                             /\ rateFor(state, e.projectId, e.clientId)
                                   = ClientRateOrZero(e.clientId)
                             /\ row[9] = NumberText(ClientRateOrZero(e.clientId))
             /\ (noClient /\ noProject) => /\ rateFor(state, e.projectId, e.clientId) = 0
                                           /\ row[10] = NumberText(0)
             /\ (noClient \/ noProject) =>
                   /\ e \in Range(es)
                   /\ \E r \in Range(byClientOf(es)) :
                         /\ r.clientId = e.clientId
                         /\ r.dur = SumOfDurations({ x \in Range(es) : x.clientId = e.clientId })
                         /\ r.dur >= e.durationMs
                   /\ \E r \in Range(byProjectOf(es)) :
                         /\ r.projectId = e.projectId
                         /\ r.dur = SumOfDurations({ x \in Range(es) : x.projectId = e.projectId })
                         /\ r.dur >= e.durationMs
    /\ \A c \in Ids(state.clients) :
          LET chosen == invoiceEntriesIn(state, c, invoiceFrom, invoiceTo)
          IN \A l \in Range(LinesOf(state, chosen)) :
                l.projectId \notin Ids(state.projects) =>
                    /\ l.description = "Work on Unassigned"
                    /\ l.rate = ClientRateOrZero(c)
                    /\ l.hours = SumOfHours({ e \in Range(chosen) : e.projectId = l.projectId })

(* Two entries have been timed: one for a stored client with a default     *)
(* rate and a project that is not stored, one for a client that is not     *)
(* stored; both last a minute, and the first is billable.                   *)
C35_Witness ==
    /\ \E e \in Range(state.entries) :
          /\ e.clientId \in Ids(state.clients)
          /\ ClientRateOrZero(e.clientId) > 0
          /\ e.projectId \notin Ids(state.projects)
          /\ e.durationMs > 0 /\ e.billable
    /\ \E e \in Range(state.entries) :
          /\ e.clientId \notin Ids(state.clients)
          /\ e.durationMs > 0

----------------------------------------------------------------------------
(* The first of the rates that is not zero, 0 if there is none.            *)
RECURSIVE FirstNonZero(_)
FirstNonZero(rates) ==
    IF rates = << >> THEN 0
    ELSE IF Head(rates) # 0 THEN Head(rates) ELSE FirstNonZero(Tail(rates))

(* The rate resolved last.                                                 *)
LastResolved(rates) == IF rates = << >> THEN 0 ELSE rates[Len(rates)]

(* C36: in the lines built for a client and a range, the entries grouped   *)
(* into a line all resolve to one rate, that of the line's project and the *)
(* invoice's client; it is the rate of the line, and so are the first      *)
(* non-zero and the last of the rates resolved for the group.              *)
C36_LineRateIsEffectiveRate ==
    \A c \in Ids(state.clients) :
    LET chosen == invoiceEntriesIn(state, c, invoiceFrom, invoiceTo)
    IN \A l \in Range(LinesOf(state, chosen)) :
          LET group == SelectSeq(chosen, LAMBDA e : e.projectId = l.projectId)
              rates == [ i \in DOMAIN group |->
                           rateFor(state, group[i].projectId, group[i].clientId) ]
          IN /\ group # << >>
             /\ \A i \in DOMAIN rates : rates[i] = rateFor(state, l.projectId, c)
             /\ l.rate = rateFor(state, l.projectId, c)
             /\ l.rate = FirstNonZero(rates)
             /\ l.rate = LastResolved(rates)

(* The default rate of the client has been edited away and the project    *)
(* has been given a rate of its own: the line built for the two entries of *)
(* the client, chosen in the invoice form, is at the rate of the project.  *)
C36_Witness ==
    /\ IsSet(invoiceClient)
    /\ ClientRateOrZero(invoiceClient) = 0
    /\ LET chosen == invoiceEntriesOf(state, invoiceClient)
           lines == LinesOf(state, chosen)
       IN /\ Len(chosen) = 2
          /\ Len(lines) = 1
          /\ lines[1].rate = 7500
          /\ lines[1].hours = 4

----------------------------------------------------------------------------
(* C37: every entry whose project is stored has the client of that         *)
(* project.                                                                *)
C37_EntryClientIsProjectClient ==
    \A e \in Range(state.entries) :
        MapHas(state.projects, e.projectId) =>
            e.clientId = MapGet(state.projects, e.projectId).clientId

============================================================================
